---- MODULE Spec2Model ----
(***************************************************************************)
(* Jsonmate: the JSON validation / diagnosis engine of jsonUtils            *)
(* (src/unnamed/part_000) as a state machine.  Text is a sequence of        *)
(* one-character strings; the pure functions of the module are operators,   *)
(* computed the way the code computes them.                                 *)
(***************************************************************************)
EXTENDS Integers, Sequences, FiniteSets, TLC

(***************************************************************************)
(* Characters                                                               *)
(***************************************************************************)
QUOTE == "\""
BSLASH == "\\"
LF == "\n"

\* String.prototype.trim strips these (of the modelled alphabet).
TrimWS == {" ", "\t", LF, "\r", "\f"}
\* JSON insignificant whitespace (ECMA-404).
JsonWS == {" ", "\t", LF, "\r"}
Digits == {"0", "1", "2", "3", "4", "5", "6", "7", "8", "9"}

DigitVal(c) ==
  CASE c = "0" -> 0 [] c = "1" -> 1 [] c = "2" -> 2 [] c = "3" -> 3
    [] c = "4" -> 4 [] c = "5" -> 5 [] c = "6" -> 6 [] c = "7" -> 7
    [] c = "8" -> 8 [] c = "9" -> 9

DigitChar(n) ==
  CASE n = 0 -> "0" [] n = 1 -> "1" [] n = 2 -> "2" [] n = 3 -> "3"
    [] n = 4 -> "4" [] n = 5 -> "5" [] n = 6 -> "6" [] n = 7 -> "7"
    [] n = 8 -> "8" [] n = 9 -> "9"

(***************************************************************************)
(* String primitives of the JavaScript runtime                              *)
(***************************************************************************)
\* const name = value; ...: the value is computed once and named in what follows.
Let(value, In(_)) == In(value)

Max(a, b) == IF a >= b THEN a ELSE b

\* input.split('\n')
RECURSIVE Split(_)
Split(s) ==
  IF \A k \in 1..Len(s) : s[k] # LF
    THEN <<s>>
    ELSE LET k == CHOOSE k \in 1..Len(s) :
                    s[k] = LF /\ \A j \in 1..(k - 1) : s[j] # LF
         IN <<SubSeq(s, 1, k - 1)>> \o Split(SubSeq(s, k + 1, Len(s)))

\* lines.join('\n')
RECURSIVE Join(_)
Join(ls) ==
  IF ls = <<>> THEN <<>>
  ELSE IF Len(ls) = 1 THEN ls[1]
  ELSE ls[1] \o <<LF>> \o Join(Tail(ls))

\* s.trim()
Trim(s) ==
  IF \A k \in 1..Len(s) : s[k] \in TrimWS
    THEN <<>>
    ELSE LET a == CHOOSE a \in 1..Len(s) :
                    s[a] \notin TrimWS /\ \A j \in 1..(a - 1) : s[j] \in TrimWS
             b == CHOOSE b \in 1..Len(s) :
                    s[b] \notin TrimWS /\ \A j \in (b + 1)..Len(s) : s[j] \in TrimWS
         IN SubSeq(s, a, b)

\* s.startsWith(p), s.endsWith(p), s.includes(c)
StartsWith(s, p) == Len(s) >= Len(p) /\ SubSeq(s, 1, Len(p)) = p
EndsWith(s, p) == Len(s) >= Len(p) /\ SubSeq(s, Len(s) - Len(p) + 1, Len(s)) = p
Includes(s, c) == \E k \in 1..Len(s) : s[k] = c

(***************************************************************************)
(* JSON values.  [t |-> type, v |-> payload]:                               *)
(*   null; bool (BOOLEAN); num ([neg, ip, fr, inf]: sign, integer part,     *)
(*   fraction digits without trailing zeros, or an infinity: -0 keeps its   *)
(*   sign); str (characters); arr (values);                                 *)
(*   obj (<<key, value>> pairs in the runtime's property order).            *)
(***************************************************************************)
NullV == [t |-> "null", v |-> 0]
BoolV(b) == [t |-> "bool", v |-> b]
NumV(neg, ip, fr) == [t |-> "num", v |-> [neg |-> neg, ip |-> ip, fr |-> fr, inf |-> FALSE]]
\* Infinity and -Infinity: what a literal beyond the range of a double becomes
StrV(s) == [t |-> "str", v |-> s]
ArrV(a) == [t |-> "arr", v |-> a]
ObjV(o) == [t |-> "obj", v |-> o]

\* A canonical array index ("0", "7", "10"): such keys are enumerated first,
\* in ascending numeric order, by every object of the runtime.
IsIndexKey(k) ==
  /\ Len(k) >= 1
  /\ \A j \in 1..Len(k) : k[j] \in Digits
  /\ (Len(k) > 1 => k[1] # "0")

RECURSIVE DigitsToNat(_)
DigitsToNat(ds) ==
  IF ds = <<>> THEN 0
  ELSE 10 * DigitsToNat(SubSeq(ds, 1, Len(ds) - 1)) + DigitVal(ds[Len(ds)])

RECURSIVE NatToDigits(_)
NatToDigits(n) ==
  IF n < 10 THEN <<DigitChar(n)>>
  ELSE NatToDigits(n \div 10) \o <<DigitChar(n % 10)>>

\* Does key a come before key b in the runtime's own-property order, given
\* that a was inserted after every key of the object?  Only an index key
\* moves ahead: before the non-index keys and before larger indices.
KeyBefore(a, b) ==
  /\ IsIndexKey(a)
  /\ (IsIndexKey(b) => DigitsToNat(a) < DigitsToNat(b))

\* CreateDataProperty / obj[key] = value on an ordinary object: an existing
\* key keeps its place and takes the new value, a new key is placed by the
\* property order.
ObjSet(o, k, val) ==
  IF \E j \in 1..Len(o) : o[j][1] = k
    THEN [j \in 1..Len(o) |-> IF o[j][1] = k THEN <<k, val>> ELSE o[j]]
    ELSE LET p == Cardinality({j \in 1..Len(o) : ~KeyBefore(k, o[j][1])})
         IN SubSeq(o, 1, p) \o <<<<k, val>>>> \o SubSeq(o, p + 1, Len(o))

(***************************************************************************)
(* JSON.parse (ECMA-404 grammar).  A parse step returns [ok, v, i, kind]:   *)
(* success, the value, the index after it; or failure, the index of the     *)
(* offending character (Len + 1 at the end of the text) and its kind:       *)
(* "eof" (the text ended), "eof_in_string" (it ended inside a string        *)
(* literal), "control_in_string" (a raw control character inside a string   *)
(* literal), "token" (any other unexpected character).  \uXXXX escapes and   *)
(* numbers of more than nine digits are not spelled by any modelled text.   *)
(***************************************************************************)
PFail(kind, i) == [ok |-> FALSE, v |-> NullV, i |-> i, kind |-> kind]
POk(val, i) == [ok |-> TRUE, v |-> val, i |-> i, kind |-> "ok"]
\* A failure at index i of s: the end of the text, or an unexpected character.
PFailAt(s, i) == IF i > Len(s) THEN PFail("eof", Len(s) + 1) ELSE PFail("token", i)

SkipWS(s, i) ==
  CHOOSE j \in i..(Len(s) + 1) :
    /\ (j = Len(s) + 1 \/ s[j] \notin JsonWS)
    /\ \A k \in i..(j - 1) : s[k] \in JsonWS

UnescapeChar(c) ==
  CASE c = QUOTE -> QUOTE
    [] c = BSLASH -> BSLASH
    [] c = "/" -> "/"
    [] c = "b" -> "<BS>"
    [] c = "f" -> "\f"
    [] c = "n" -> LF
    [] c = "r" -> "\r"
    [] c = "t" -> "\t"


\* The characters of a string literal from index j (after the opening quote).
RECURSIVE PStr(_, _, _)
PStr(s, j, acc) ==
  IF j > Len(s) THEN PFail("eof_in_string", Len(s) + 1)
  ELSE IF s[j] = QUOTE THEN POk(StrV(acc), j + 1)
  ELSE IF s[j] = BSLASH
    THEN IF j + 1 > Len(s) THEN PFail("eof_in_string", Len(s) + 1)
         ELSE IF s[j + 1] \in {QUOTE, BSLASH, "/", "b", "f", "n", "r", "t"}
           THEN PStr(s, j + 2, Append(acc, UnescapeChar(s[j + 1])))
         ELSE PFail("token", j + 1)
  ELSE IF s[j] \in {"\t", LF, "\r", "\f", "<BS>"} THEN PFail("control_in_string", j)
  ELSE PStr(s, j + 1, Append(acc, s[j]))

\* The end (exclusive) of the run of digits starting at i.
DigitsEnd(s, i) ==
  CHOOSE j \in i..(Len(s) + 1) :
    /\ (j = Len(s) + 1 \/ s[j] \notin Digits)
    /\ \A k \in i..(j - 1) : s[k] \in Digits

RECURSIVE StripZeros(_)
StripZeros(ds) ==
  IF ds # <<>> /\ ds[Len(ds)] = "0" THEN StripZeros(SubSeq(ds, 1, Len(ds) - 1))
  ELSE ds

\* StringToNumber for the literal (-)ds.fr e exp: the nearest double.  A
\* magnitude of 1e309 or more is an infinity, one below 1e-324 is zero.
Decimal(neg, ds, fr, exp) ==
  LET all == ds \o fr
      point == Len(ds) + exp
      nonzero == {k \in 1..Len(all) : all[k] # "0"}
      first == CHOOSE k \in nonzero : \A j \in nonzero : k <= j
      Zeros(n) == [k \in 1..n |-> "0"]
  IN IF nonzero = {} THEN NumV(neg, 0, <<>>)
     ELSE IF point - first > 308
       THEN [t |-> "num", v |-> [neg |-> neg, ip |-> 0, fr |-> <<>>, inf |-> TRUE]]
     ELSE IF point - first < -324 THEN NumV(neg, 0, <<>>)
     ELSE IF point >= Len(all)
       THEN NumV(neg, DigitsToNat(all \o Zeros(point - Len(all))), <<>>)
     ELSE IF point <= 0 THEN NumV(neg, 0, StripZeros(Zeros(-point) \o all))
     ELSE NumV(neg, DigitsToNat(SubSeq(all, 1, point)),
               StripZeros(SubSeq(all, point + 1, Len(all))))

\* A number literal at index i: -? int frac? exp?
PNumber(s, i) ==
  LET neg == s[i] = "-"
      a == IF neg THEN i + 1 ELSE i
      b == DigitsEnd(s, a)
      hasFrac == b <= Len(s) /\ s[b] = "."
      c == IF hasFrac THEN DigitsEnd(s, b + 1) ELSE b
      hasExp == c <= Len(s) /\ s[c] \in {"e", "E"}
      signed == hasExp /\ c + 1 <= Len(s) /\ s[c + 1] \in {"+", "-"}
      d == IF signed THEN c + 2 ELSE c + 1
      f == IF hasExp THEN DigitsEnd(s, d) ELSE c
      exp == IF ~hasExp THEN 0
             ELSE IF signed /\ s[c + 1] = "-" THEN 0 - DigitsToNat(SubSeq(s, d, f - 1))
             ELSE DigitsToNat(SubSeq(s, d, f - 1))
  IN IF b = a THEN PFailAt(s, a)
     ELSE IF b - a > 1 /\ s[a] = "0" THEN PFail("token", a + 1)
     ELSE IF hasFrac /\ c = b + 1 THEN PFailAt(s, c)
     ELSE IF hasExp /\ f = d THEN PFailAt(s, d)
     ELSE POk(Decimal(neg, SubSeq(s, a, b - 1),
                      IF hasFrac THEN SubSeq(s, b + 1, c - 1) ELSE <<>>, exp), f)


At(s, i, lit) == i + Len(lit) - 1 <= Len(s) /\ SubSeq(s, i, i + Len(lit) - 1) = lit

RECURSIVE PValue(_, _)
RECURSIVE PElements(_, _, _)
RECURSIVE PMembers(_, _, _)

\* A value starting at or after index i (leading whitespace skipped).
PValue(s, i0) ==
  LET i == SkipWS(s, i0)
  IN IF i > Len(s) THEN PFailAt(s, i)
     ELSE IF s[i] = "{"
       THEN LET j == SkipWS(s, i + 1)
            IN IF j <= Len(s) /\ s[j] = "}" THEN POk(ObjV(<<>>), j + 1)
               ELSE PMembers(s, j, <<>>)
     ELSE IF s[i] = "["
       THEN LET j == SkipWS(s, i + 1)
            IN IF j <= Len(s) /\ s[j] = "]" THEN POk(ArrV(<<>>), j + 1)
               ELSE PElements(s, j, <<>>)
     ELSE IF s[i] = QUOTE THEN PStr(s, i + 1, <<>>)
     ELSE IF s[i] = "-" \/ s[i] \in Digits THEN PNumber(s, i)
     ELSE IF At(s, i, <<"t", "r", "u", "e">>) THEN POk(BoolV(TRUE), i + 4)
     ELSE IF At(s, i, <<"f", "a", "l", "s", "e">>) THEN POk(BoolV(FALSE), i + 5)
     ELSE IF At(s, i, <<"n", "u", "l", "l">>) THEN POk(NullV, i + 4)
     ELSE PFailAt(s, i)

\* The elements of an array from index i, up to and including the ']'.
PElements(s, i, acc) ==
  LET r == PValue(s, i)
  IN IF ~r.ok THEN r
     ELSE LET j == SkipWS(s, r.i)
          IN IF j > Len(s) THEN PFailAt(s, j)
             ELSE IF s[j] = "," THEN PElements(s, j + 1, Append(acc, r.v))
             ELSE IF s[j] = "]" THEN POk(ArrV(Append(acc, r.v)), j + 1)
             ELSE PFailAt(s, j)

\* The members of an object from index i, up to and including the '}'.
PMembers(s, i0, acc) ==
  LET i == SkipWS(s, i0)
  IN IF i > Len(s) \/ s[i] # QUOTE THEN PFailAt(s, i)
     ELSE LET k == PStr(s, i + 1, <<>>)
          IN IF ~k.ok THEN k
             ELSE LET c == SkipWS(s, k.i)
                  IN IF c > Len(s) \/ s[c] # ":" THEN PFailAt(s, c)
                     ELSE LET r == PValue(s, c + 1)
                          IN IF ~r.ok THEN r
                             ELSE LET j == SkipWS(s, r.i)
                                      o == ObjSet(acc, k.v.v, r.v)
                                  IN IF j > Len(s) THEN PFailAt(s, j)
                                     ELSE IF s[j] = "," THEN PMembers(s, j + 1, o)
                                     ELSE IF s[j] = "}" THEN POk(ObjV(o), j + 1)
                                     ELSE PFailAt(s, j)

\* JSON.parse(input): [ok |-> the text is accepted, v |-> the decoded value];
\* when it is not, kind and at (1-based index) say where the parser stopped.
JSONparse(s) ==
  Let(PValue(s, 1), LAMBDA r :
    IF ~r.ok THEN [ok |-> FALSE, v |-> NullV, kind |-> r.kind, at |-> r.i]
    ELSE Let(SkipWS(s, r.i), LAMBDA end :
           IF end = Len(s) + 1 THEN [ok |-> TRUE, v |-> r.v, kind |-> "ok", at |-> 0]
           ELSE [ok |-> FALSE, v |-> NullV, kind |-> "token", at |-> end]))

(***************************************************************************)
(* Text that is produced rather than scanned (the parser's error message,   *)
(* the suggestions) is a sequence of tokens: a word or a number.            *)
(***************************************************************************)
None == <<>>
Some(x) == <<x>>

W(w) == [w |-> w, n |-> 0]
N(n) == [w |-> "#", n |-> n]
IsNum(tok) == tok.w = "#"
Words(ws) == [k \in 1..Len(ws) |-> W(ws[k])]
Chars(cs) == [k \in 1..Len(cs) |-> W(cs[k])]

\* Does the token text hold the given words, in a row?
HasWords(text, ws) ==
  \E k \in 1..(Len(text) - Len(ws) + 1) :
    \A j \in 1..Len(ws) : text[k + j - 1] = W(ws[j])

\* message.toLowerCase(), word by word
LowerWord(w) ==
  CASE w = "Unterminated" -> "unterminated"
    [] w = "Unexpected" -> "unexpected"
    [] w = "Expected" -> "expected"
    [] w = "Bad" -> "bad"
    [] w = "JSON" -> "json"
    [] w = "JSON.parse:" -> "json.parse:"
    [] w = "Parse" -> "parse"
    [] w = "EOF" -> "eof"
    [] OTHER -> w

ToLowerCase(text) ==
  [k \in 1..Len(text) |-> IF IsNum(text[k]) THEN text[k] ELSE W(LowerWord(text[k].w))]

\* What JSON.parse(s) throws, by engine, on a text it rejects: the parse
\* stopped at 0-based offset p, which is column c (1-based) of line l
\* (1-based).
NativeMessages(s) ==
  Let(JSONparse(s), LAMBDA r :
  LET breaks == {k \in 1..(r.at - 1) : k <= Len(s) /\ s[k] = LF}
      p == r.at - 1
      l == 1 + Cardinality(breaks)
      c == IF breaks = {} THEN r.at
           ELSE r.at - (CHOOSE k \in breaks : \A j \in breaks : j <= k)
      AtPosition == <<W("in"), W("JSON"), W("at"), W("position"), N(p)>>
      AtLineColumn == <<W("("), W("line"), N(l), W("column"), N(c), W(")")>>
      OfTheData ==
        <<W("at"), W("line"), N(l), W("column"), N(c)>>
          \o Words(<<"of", "the", "JSON", "data">>)
      \* V8 before its messages named the line and column
      V8EndOfInput == Words(<<"Unexpected", "end", "of", "JSON", "input">>)
      V8Token == Words(<<"Unexpected", "token">>) \o AtPosition
      \* V8 since
      V8Unterminated == Words(<<"Unterminated", "string">>) \o AtPosition \o AtLineColumn
      V8BadControl ==
        Words(<<"Bad", "control", "character", "in", "string", "literal">>)
          \o AtPosition \o AtLineColumn
      V8Expected ==
        Words(<<"Expected", "','", "or", "'}'", "after", "property", "value">>)
          \o AtPosition \o AtLineColumn
      V8NotValid == Words(<<"Unexpected", "token", "is", "not", "valid", "JSON">>)
      \* SpiderMonkey
      MozUnterminated == Words(<<"JSON.parse:", "unterminated", "string">>) \o OfTheData
      MozBadControl ==
        Words(<<"JSON.parse:", "bad", "control", "character", "in", "string", "literal">>)
          \o OfTheData
      MozEndOfData == Words(<<"JSON.parse:", "unexpected", "end", "of", "data">>) \o OfTheData
      MozCharacter == Words(<<"JSON.parse:", "unexpected", "character">>) \o OfTheData
      \* JavaScriptCore
      JscUnterminated == Words(<<"JSON", "Parse", "error:", "Unterminated", "string">>)
      JscEOF == Words(<<"JSON", "Parse", "error:", "Unexpected", "EOF">>)
      JscExpected == Words(<<"JSON", "Parse", "error:", "Expected", "'}'">>)
  IN CASE r.kind = "eof_in_string" ->
            {V8EndOfInput, V8Unterminated, MozUnterminated, JscUnterminated}
       [] r.kind = "control_in_string" ->
            {V8Token, V8BadControl, MozBadControl, JscUnterminated}
       [] r.kind = "eof" ->
            {V8EndOfInput, MozEndOfData, JscEOF}
       [] r.kind = "token" ->
            {V8Token, V8Expected, V8NotValid, MozCharacter, JscExpected})

\* error.message.replace(/^JSON\.parse: /, '').replace(/JSON Parse error: /, '')
CleanMessage(msg) ==
  LET a == IF msg # <<>> /\ msg[1] = W("JSON.parse:") THEN Tail(msg) ELSE msg
      pre == <<"JSON", "Parse", "error:">>
  IN IF HasWords(a, pre)
       THEN LET k == CHOOSE k \in 1..(Len(a) - 2) :
                       /\ \A j \in 1..3 : a[k + j - 1] = W(pre[j])
                       /\ \A m \in 1..(k - 1) :
                            ~(\A j \in 1..3 : a[m + j - 1] = W(pre[j]))
            IN SubSeq(a, 1, k - 1) \o SubSeq(a, k + 3, Len(a))
       ELSE a

(***************************************************************************)
(* The diagnosis: {line?, column?, suggestion?}, an absent or undefined     *)
(* field being None.                                                        *)
(***************************************************************************)
Diag(line, column, suggestion) ==
  [line |-> line, column |-> column, suggestion |-> suggestion]

\* countUnescapedQuotes(line)
RECURSIVE CountQuotesFrom(_, _, _, _)
CountQuotesFrom(line, i, escaped, count) ==
  IF i > Len(line) THEN count
  ELSE IF escaped THEN CountQuotesFrom(line, i + 1, FALSE, count)
  ELSE IF line[i] = BSLASH THEN CountQuotesFrom(line, i + 1, TRUE, count)
  ELSE IF line[i] = QUOTE THEN CountQuotesFrom(line, i + 1, FALSE, count + 1)
  ELSE CountQuotesFrom(line, i + 1, FALSE, count)

countUnescapedQuotes(line) == CountQuotesFrom(line, 1, FALSE, 0)

\* The smallest index of 1..n satisfying Test, as Some(i), or None.
FirstIndex(n, Test(_)) ==
  IF \E i \in 1..n : Test(i)
    THEN Some(CHOOSE i \in 1..n : Test(i) /\ \A j \in 1..(i - 1) : ~Test(j))
    ELSE None

SuggestQuote ==
  Words(<<"Add", "closing", "quote", "(\")", "at", "the", "end", "of", "the", "string">>)
SuggestComma(n) ==
  Words(<<"Add", "comma", "(,)", "at", "the", "end", "of", "line">>) \o <<N(n)>>
SuggestColon ==
  Words(<<"Add", "colon", "(:)", "after", "the", "property", "name">>)
\* The trailing-comma suggestion with the two closers' names exchanged.
SuggestTrailing_Exchanged(closer) ==
  Words(<<"Remove", "trailing", "comma", "-", "not", "allowed", "before", "closing",
          IF closer = "}" THEN "bracket" ELSE "brace">>)

SuggestTrailing(closer) ==
  Words(<<"Remove", "trailing", "comma", "-", "not", "allowed", "before", "closing",
          IF closer = "}" THEN "brace" ELSE "bracket">>)
SuggestHere == Words(<<"Check", "syntax", "at", "this", "location">>)
SuggestGeneric == Words(<<"Check", "your", "JSON", "syntax">>)

\* 1. UNTERMINATED STRING
\* The check's condition taken as met whatever the message says.
MentionsUnterminated_Always(errorMsg) == TRUE

MentionsUnterminated(errorMsg) ==
  \/ HasWords(errorMsg, <<"unterminated">>)
  \/ HasWords(errorMsg, <<"unexpected", "end", "of", "json">>)

OddQuotes(lines, i) == countUnescapedQuotes(lines[i]) % 2 # 0

UnterminatedCheck(lines, errorMsg) ==
  IF MentionsUnterminated(errorMsg)
    THEN LET hit == FirstIndex(Len(lines), LAMBDA i : OddQuotes(lines, i))
         IN IF hit = None THEN None
            ELSE Some(Diag(Some(hit[1]), Some(Len(lines[hit[1]])), Some(SuggestQuote)))
    ELSE None

\* 2. MISSING COMMA
EndsWithValue(current) ==
  \/ EndsWith(current, <<QUOTE>>)
  \/ EndsWith(current, <<"}">>)
  \/ EndsWith(current, <<"]">>)
  \/ (current # <<>> /\ current[Len(current)] \in Digits \cup {"."})
  \/ EndsWith(current, <<"t", "r", "u", "e">>)
  \/ EndsWith(current, <<"f", "a", "l", "s", "e">>)
  \/ EndsWith(current, <<"n", "u", "l", "l">>)

MissingCommaAt(lines, i) ==
  LET current == Trim(lines[i])
      next == Trim(lines[i + 1])
  IN /\ ~(current = <<>> \/ StartsWith(current, <<"/", "/">>))
     /\ ~EndsWith(current, <<",">>)
     /\ ~EndsWith(current, <<"{">>)
     /\ ~EndsWith(current, <<"[">>)
     /\ EndsWithValue(current)
     /\ StartsWith(next, <<QUOTE>>)

\* The missing-comma check taking the column from the trimmed line.
MissingCommaCheck_TrimmedColumn(lines) ==
  LET hit == FirstIndex(Len(lines) - 1, LAMBDA i : MissingCommaAt(lines, i))
  IN IF hit = None THEN None
     ELSE Some(Diag(Some(hit[1]), Some(Len(Trim(lines[hit[1]]))),
                    Some(SuggestComma(hit[1]))))

MissingCommaCheck(lines) ==
  LET hit == FirstIndex(Len(lines) - 1, LAMBDA i : MissingCommaAt(lines, i))
  IN IF hit = None THEN None
     ELSE Some(Diag(Some(hit[1]), Some(Len(lines[hit[1]])), Some(SuggestComma(hit[1]))))

\* 3. MISSING COLON
\* current.match(/^"[^"]+"\s*$/)
PropMatch(current) ==
  \E q \in 3..Len(current) :
    /\ current[1] = QUOTE
    /\ current[q] = QUOTE
    /\ \A k \in 2..(q - 1) : current[k] # QUOTE
    /\ \A k \in (q + 1)..Len(current) : current[k] \in TrimWS

MissingColonAt(lines, i) ==
  LET current == Trim(lines[i])
  IN /\ PropMatch(current)
     /\ i < Len(lines)
     /\ ~StartsWith(Trim(lines[i + 1]), <<":">>)
     /\ ~Includes(current, ":")

\* The missing-colon check giving the line's length as column.
MissingColonCheck_WithColumn(lines) ==
  LET hit == FirstIndex(Len(lines), LAMBDA i : MissingColonAt(lines, i))
  IN IF hit = None THEN None
     ELSE Some(Diag(Some(hit[1]), Some(Len(lines[hit[1]])), Some(SuggestColon)))

MissingColonCheck(lines) ==
  LET hit == FirstIndex(Len(lines), LAMBDA i : MissingColonAt(lines, i))
  IN IF hit = None THEN None
     ELSE Some(Diag(Some(hit[1]), None, Some(SuggestColon)))

\* 4. UNMATCHED BRACKETS/BRACES
\* trackBrackets(input): {} is NoBrackets; an error carries line, column and
\* suggestion.  The stack holds [char, line, column]; inString and escaped are
\* carried from one line to the next.
NoBrackets == [error |-> FALSE, line |-> None, column |-> None, suggestion |-> None]
BracketError(line, column, suggestion) ==
  [error |-> TRUE, line |-> Some(line), column |-> Some(column),
   suggestion |-> Some(suggestion)]

CloserOf(open) == IF open = "{" THEN "}" ELSE "]"
BraceWord(isBrace) == IF isBrace THEN "brace" ELSE "bracket"

SuggestUnexpected(char) ==
  Words(<<"Unexpected", "closing", BraceWord(char = "}"), "-", "no", "matching", "opening">>)
SuggestMismatched(expectedClose, char, last) ==
  Words(<<"Mismatched", "bracket", "-", "expected", expectedClose, "but", "found",
          char, "Opening", last.char, "was", "at", "line">>) \o <<N(last.line)>>
SuggestUnclosed(char) ==
  Words(<<"Unclosed", BraceWord(char = "{"), "-", "add", "closing", CloserOf(char)>>)

\* A closer met outside a string: the error it raises, or None when it
\* matches the opener on top of the stack.
\* The mismatch reported at the opener's position instead of the closer's.
CloseBracket_OpenerPosition(stack, char, lineIdx, colIdx) ==
  IF Len(stack) = 0
    THEN Some(BracketError(lineIdx, colIdx, SuggestUnexpected(char)))
    ELSE LET last == stack[Len(stack)]
             expectedClose == CloserOf(last.char)
         IN IF char # expectedClose
              THEN Some(BracketError(last.line, last.column,
                                     SuggestMismatched(expectedClose, char, last)))
              ELSE None

CloseBracket(stack, char, lineIdx, colIdx) ==
  IF Len(stack) = 0
    THEN Some(BracketError(lineIdx, colIdx, SuggestUnexpected(char)))
    ELSE LET last == stack[Len(stack)]
             expectedClose == CloserOf(last.char)
         IN IF char # expectedClose
              THEN Some(BracketError(lineIdx, colIdx,
                                     SuggestMismatched(expectedClose, char, last)))
              ELSE None

\* The end of the input with openers left on the stack.
\* The outermost opener reported instead of the innermost.
UnclosedError_Outermost(stack) ==
  LET unclosed == stack[1]
  IN BracketError(unclosed.line, unclosed.column, SuggestUnclosed(unclosed.char))

UnclosedError(stack) ==
  LET unclosed == stack[Len(stack)]
  IN BracketError(unclosed.line, unclosed.column, SuggestUnclosed(unclosed.char))

RECURSIVE TrackFrom(_, _, _, _, _, _)
TrackFrom(lines, lineIdx, colIdx, inString, escaped, stack) ==
  IF lineIdx > Len(lines)
    THEN IF Len(stack) > 0 THEN UnclosedError(stack) ELSE NoBrackets
  ELSE IF colIdx > Len(lines[lineIdx])
    THEN TrackFrom(lines, lineIdx + 1, 1, inString, escaped, stack)
  ELSE LET char == lines[lineIdx][colIdx]
       IN IF escaped
            THEN TrackFrom(lines, lineIdx, colIdx + 1, inString, FALSE, stack)
          ELSE IF char = BSLASH
            THEN TrackFrom(lines, lineIdx, colIdx + 1, inString, TRUE, stack)
          ELSE IF char = QUOTE
            THEN TrackFrom(lines, lineIdx, colIdx + 1, ~inString, FALSE, stack)
          ELSE IF inString
            THEN TrackFrom(lines, lineIdx, colIdx + 1, inString, FALSE, stack)
          ELSE IF char \in {"{", "["}
            THEN TrackFrom(lines, lineIdx, colIdx + 1, inString, FALSE,
                           Append(stack, [char |-> char, line |-> lineIdx,
                                          column |-> colIdx]))
          ELSE IF char \in {"}", "]"}
            THEN LET bad == CloseBracket(stack, char, lineIdx, colIdx)
                 IN IF bad # None THEN bad[1]
                    ELSE TrackFrom(lines, lineIdx, colIdx + 1, inString, FALSE,
                                   SubSeq(stack, 1, Len(stack) - 1))
          ELSE TrackFrom(lines, lineIdx, colIdx + 1, inString, FALSE, stack)

trackBrackets(input) == TrackFrom(Split(input), 1, 1, FALSE, FALSE, <<>>)

BracketCheck(input) ==
  LET brackets == trackBrackets(input)
  IN IF brackets.error
       THEN Some(Diag(brackets.line, brackets.column, brackets.suggestion))
       ELSE None

\* 5. TRAILING COMMA
TrailingCommaAt(lines, i) ==
  /\ i < Len(lines)
  /\ EndsWith(Trim(lines[i]), <<",">>)
  /\ Trim(lines[i + 1]) \in {<<"}">>, <<"]">>}

TrailingCommaCheck(lines) ==
  LET hit == FirstIndex(Len(lines), LAMBDA i : TrailingCommaAt(lines, i))
  IN IF hit = None THEN None
     ELSE Some(Diag(Some(hit[1]), None,
                    Some(SuggestTrailing(Trim(lines[hit[1] + 1])[1]))))

\* 6. DUPLICATE KEYS
\* line.match(/"([^"]+)"\s*:/): does a match start at index p?
KeyMatchAt(line, p) ==
  /\ line[p] = QUOTE
  /\ \E q \in (p + 2)..Len(line) :
       /\ line[q] = QUOTE
       /\ \A k \in (p + 1)..(q - 1) : line[k] # QUOTE
       /\ \E c \in (q + 1)..Len(line) :
            /\ line[c] = ":"
            /\ \A k \in (q + 1)..(c - 1) : line[k] \in TrimWS

\* keyMatch[1] of the leftmost match, as Some(key), or None.
KeyMatch(line) ==
  LET hit == FirstIndex(Len(line), LAMBDA p : KeyMatchAt(line, p))
  IN IF hit = None THEN None
     ELSE LET p == hit[1]
              q == CHOOSE q \in (p + 2)..Len(line) :
                     line[q] = QUOTE /\ \A k \in (p + 1)..(q - 1) : line[k] # QUOTE
          IN Some(SubSeq(line, p + 1, q - 1))

SuggestDuplicate(key, first) ==
  Words(<<"Duplicate", "key", QUOTE>>) \o Chars(key)
    \o Words(<<QUOTE, "-", "first", "occurrence", "was", "at", "line">>) \o <<N(first)>>

\* keys is the Map as a sequence of <<key, line>>, a key's entry being replaced
\* by keys.set.
RECURSIVE DuplicatesFrom(_, _, _)
DuplicatesFrom(lines, i, keys) ==
  IF i > Len(lines) THEN Diag(None, None, None)
  ELSE LET keyMatch == KeyMatch(lines[i])
       IN IF keyMatch = None THEN DuplicatesFrom(lines, i + 1, keys)
          ELSE LET key == keyMatch[1]
               IN IF \E j \in 1..Len(keys) : keys[j][1] = key
                    THEN LET j == CHOOSE j \in 1..Len(keys) : keys[j][1] = key
                         IN Diag(Some(i), None, Some(SuggestDuplicate(key, keys[j][2])))
                    ELSE DuplicatesFrom(lines, i + 1, Append(keys, <<key, i>>))

findDuplicateKeys(lines) == DuplicatesFrom(lines, 1, <<>>)

DuplicateCheck(lines) ==
  LET duplicates == findDuplicateKeys(lines)
  IN IF duplicates.line # None /\ duplicates.line # Some(0)
       THEN Some(duplicates)
       ELSE None

\* Fallback: the position the parser's own message gives.
\* error.message.match(/line (\d+) column (\d+)/): Some(<<line, column>>) of
\* the first match, or None.
LineColumnAt(msg, k) ==
  /\ k + 3 <= Len(msg)
  /\ msg[k] = W("line")
  /\ IsNum(msg[k + 1])
  /\ msg[k + 2] = W("column")
  /\ IsNum(msg[k + 3])

FirefoxMatch(msg) ==
  LET hit == FirstIndex(Len(msg), LAMBDA k : LineColumnAt(msg, k))
  IN IF hit = None THEN None ELSE Some(<<msg[hit[1] + 1].n, msg[hit[1] + 3].n>>)

\* error.message.match(/position (\d+)/)
PositionAt(msg, k) == k + 1 <= Len(msg) /\ msg[k] = W("position") /\ IsNum(msg[k + 1])

PositionMatch(msg) ==
  LET hit == FirstIndex(Len(msg), LAMBDA k : PositionAt(msg, k))
  IN IF hit = None THEN None ELSE Some(msg[hit[1] + 1].n)

\* input.substring(0, position)
Substring0(s, position) == SubSeq(s, 1, IF position < Len(s) THEN position ELSE Len(s))

\* Fallback returning an empty diagnosis when the message holds no position.
Fallback_NoSuggestion(input, message) ==
  LET firefoxMatch == FirefoxMatch(message)
      positionMatch == PositionMatch(message)
  IN IF firefoxMatch # None
       THEN Diag(Some(firefoxMatch[1][1]), Some(firefoxMatch[1][2]), Some(SuggestHere))
     ELSE IF positionMatch # None
       THEN LET beforeError == Split(Substring0(input, positionMatch[1]))
            IN Diag(Some(Len(beforeError)), Some(Len(beforeError[Len(beforeError)])),
                    Some(SuggestHere))
     ELSE Diag(None, None, None)

Fallback(input, message) ==
  LET firefoxMatch == FirefoxMatch(message)
      positionMatch == PositionMatch(message)
  IN IF firefoxMatch # None
       THEN Diag(Some(firefoxMatch[1][1]), Some(firefoxMatch[1][2]), Some(SuggestHere))
     ELSE IF positionMatch # None
       THEN LET beforeError == Split(Substring0(input, positionMatch[1]))
            IN Diag(Some(Len(beforeError)), Some(Len(beforeError[Len(beforeError)])),
                    Some(SuggestHere))
     ELSE Diag(None, None, Some(SuggestGeneric))

\* detectJsonError with the bracket balance check moved to the front.
\* The diagnosis of the first step, in order, that returns one.
FirstSome(steps) == steps[FirstIndex(Len(steps), LAMBDA k : steps[k] # None)[1]][1]

\* detectJsonError running the bracket check before the other checks.
detectJsonError_BracketsFirst(input, message) ==
  FirstSome(<<BracketCheck(input),
              UnterminatedCheck(Split(input), ToLowerCase(message)),
              MissingCommaCheck(Split(input)),
              MissingColonCheck(Split(input)),
              TrailingCommaCheck(Split(input)),
              DuplicateCheck(Split(input)),
              Some(Fallback(input, message))>>)

\* detectJsonError(input, error): the first check, in this order, that
\* produces a diagnosis returns it.
detectJsonError(input, message) ==
  FirstSome(<<UnterminatedCheck(Split(input), ToLowerCase(message)),
              MissingCommaCheck(Split(input)),
              MissingColonCheck(Split(input)),
              BracketCheck(input),
              TrailingCommaCheck(Split(input)),
              DuplicateCheck(Split(input)),
              Some(Fallback(input, message))>>)

\* validateJson with a catch block that swallows the SyntaxError.
validateJson_SwallowsError(input, message) ==
  IF Trim(input) = <<>>
    THEN [valid |-> TRUE, parsed |-> NullV]
    ELSE [valid |-> TRUE, parsed |-> JSONparse(input).v]

\* validateJson without the blank-input special case.
validateJson_NoBlankCase(input, message) ==
  Let(JSONparse(input), LAMBDA parsed :
    IF parsed.ok
      THEN [valid |-> TRUE, parsed |-> parsed.v]
      ELSE Let(detectJsonError(input, message), LAMBDA errorInfo :
             [valid |-> FALSE,
              error |-> [message |-> CleanMessage(message),
                         line |-> errorInfo.line,
                         column |-> errorInfo.column,
                         suggestion |-> errorInfo.suggestion]]))

\* validateJson(input), message being what JSON.parse throws on this input
\* when it throws.
validateJson(input, message) ==
  IF Trim(input) = <<>>
    THEN [valid |-> TRUE, parsed |-> NullV]
    ELSE Let(JSONparse(input), LAMBDA parsed :
           IF parsed.ok
             THEN [valid |-> TRUE, parsed |-> parsed.v]
             ELSE Let(detectJsonError(input, message), LAMBDA errorInfo :
                    [valid |-> FALSE,
                     error |-> [message |-> CleanMessage(message),
                                line |-> errorInfo.line,
                                column |-> errorInfo.column,
                                suggestion |-> errorInfo.suggestion]]))

(***************************************************************************)
(* JSON.stringify(value, null, indent)                                      *)
(***************************************************************************)
EscapeChar(c) ==
  CASE c = QUOTE -> <<BSLASH, QUOTE>>
    [] c = BSLASH -> <<BSLASH, BSLASH>>
    [] c = "<BS>" -> <<BSLASH, "b">>
    [] c = "\f" -> <<BSLASH, "f">>
    [] c = LF -> <<BSLASH, "n">>
    [] c = "\r" -> <<BSLASH, "r">>
    [] c = "\t" -> <<BSLASH, "t">>
    [] OTHER -> <<c>>

RECURSIVE EscapeAll(_)
EscapeAll(cs) == IF cs = <<>> THEN <<>> ELSE EscapeChar(Head(cs)) \o EscapeAll(Tail(cs))

QuoteString(cs) == <<QUOTE>> \o EscapeAll(cs) \o <<QUOTE>>

\* Number::toString of a finite number; -0 prints as 0.
NumberToString(n) ==
  (IF n.neg /\ ~(n.ip = 0 /\ n.fr = <<>>) THEN <<"-">> ELSE <<>>) \o NatToDigits(n.ip)
    \o (IF n.fr = <<>> THEN <<>> ELSE <<".">> \o n.fr)

Spaces(n) == [k \in 1..n |-> " "]

\* parts joined by sep
RECURSIVE JoinWith(_, _)
JoinWith(parts, sep) ==
  IF parts = <<>> THEN <<>>
  ELSE IF Len(parts) = 1 THEN parts[1]
  ELSE parts[1] \o sep \o JoinWith(Tail(parts), sep)

\* SerializeJSONProperty: gap is the indent unit, cur the current indentation.
RECURSIVE Ser(_, _, _)
Ser(val, gap, cur) ==
  LET step == cur \o gap
      open == IF gap = <<>> THEN <<>> ELSE <<LF>> \o step
      sep == IF gap = <<>> THEN <<",">> ELSE <<",", LF>> \o step
      close == IF gap = <<>> THEN <<>> ELSE <<LF>> \o cur
      colon == IF gap = <<>> THEN <<":">> ELSE <<":", " ">>
  IN CASE val.t = "null" -> <<"n", "u", "l", "l">>
       [] val.t = "bool" -> IF val.v THEN <<"t", "r", "u", "e">> ELSE <<"f", "a", "l", "s", "e">>
       [] val.t = "num" -> IF val.v.inf THEN <<"n", "u", "l", "l">> ELSE NumberToString(val.v)
       [] val.t = "str" -> QuoteString(val.v)
       [] val.t = "arr" ->
            IF val.v = <<>> THEN <<"[", "]">>
            ELSE <<"[">> \o open
                   \o JoinWith([k \in 1..Len(val.v) |-> Ser(val.v[k], gap, step)], sep)
                   \o close \o <<"]">>
       [] val.t = "obj" ->
            IF val.v = <<>> THEN <<"{", "}">>
            ELSE <<"{">> \o open
                   \o JoinWith([k \in 1..Len(val.v) |->
                                  QuoteString(val.v[k][1]) \o colon
                                    \o Ser(val.v[k][2], gap, step)], sep)
                   \o close \o <<"}">>

\* The indent argument is clamped to 10 spaces by the runtime.
MaxGap == 10
JSONstringify(val, indent) ==
  Ser(val, Spaces(IF indent > MaxGap THEN MaxGap ELSE IF indent < 0 THEN 0 ELSE indent), <<>>)

(***************************************************************************)
(* formatJson, minifyJson, sortJsonKeys                                     *)
(***************************************************************************)
DefaultIndent == 2

IsNullResult(result) == result.parsed.t = "null"

\* formatJson that stringifies what the parser left, accepted or not
formatJson_NoValidityCheck(input, indent, message) ==
  IF Trim(input) = <<>> THEN input
  ELSE JSONstringify(JSONparse(input).v, indent)

formatJson(input, indent, message) ==
  Let(validateJson(input, message), LAMBDA result :
    IF ~result.valid \/ IsNullResult(result) THEN input
    ELSE JSONstringify(result.parsed, indent))

minifyJson(input, message) ==
  Let(validateJson(input, message), LAMBDA result :
    IF ~result.valid \/ IsNullResult(result) THEN input
    ELSE JSONstringify(result.parsed, 0))

\* UTF-16 code units of the alphabet, for Array.prototype.sort's default order.
Ascii ==
  <<" ", "!", QUOTE, "#", "$", "%", "&", "'", "(", ")", "*", "+", ",", "-", ".", "/",
    "0", "1", "2", "3", "4", "5", "6", "7", "8", "9", ":", ";", "<", "=", ">", "?",
    "@", "A", "B", "C", "D", "E", "F", "G", "H", "I", "J", "K", "L", "M", "N", "O",
    "P", "Q", "R", "S", "T", "U", "V", "W", "X", "Y", "Z", "[", BSLASH, "]", "^", "_",
    "<grave>", "a", "b", "c", "d", "e", "f", "g", "h", "i", "j", "k", "l", "m", "n", "o",
    "p", "q", "r", "s", "t", "u", "v", "w", "x", "y", "z", "{", "|", "}", "~">>

CharCode(c) ==
  CASE c = "<BS>" -> 8 [] c = "\t" -> 9 [] c = LF -> 10 [] c = "\f" -> 12 [] c = "\r" -> 13
    [] OTHER -> 31 + (CHOOSE k \in 1..Len(Ascii) : Ascii[k] = c)

\* a < b as strings
RECURSIVE StringLess(_, _)
StringLess(a, b) ==
  IF b = <<>> THEN FALSE
  ELSE IF a = <<>> THEN TRUE
  ELSE IF a[1] = b[1] THEN StringLess(Tail(a), Tail(b))
  ELSE CharCode(a[1]) < CharCode(b[1])

\* keys.sort()
RECURSIVE SortStrings(_)
SortStrings(ks) ==
  IF ks = <<>> THEN <<>>
  ELSE LET m == CHOOSE m \in 1..Len(ks) :
                  \A j \in 1..Len(ks) :
                    j # m => (StringLess(ks[m], ks[j]) \/ (ks[m] = ks[j] /\ m < j))
       IN <<ks[m]>> \o SortStrings(SubSeq(ks, 1, m - 1) \o SubSeq(ks, m + 1, Len(ks)))

\* Object.keys(obj); obj[key]
ObjectKeys(o) == [k \in 1..Len(o) |-> o[k][1]]
ObjGet(o, key) == o[CHOOSE k \in 1..Len(o) : o[k][1] = key][2]
HasKey(o, key) == \E k \in 1..Len(o) : o[k][1] = key

ProtoKey == <<"_", "_", "p", "r", "o", "t", "o", "_", "_">>

\* acc[key] = value on an object literal: the "__proto__" accessor swallows the
\* assignment, any other key is an own data property.
ObjAssign(acc, key, val) == IF key = ProtoKey THEN acc ELSE ObjSet(acc, key, val)

RECURSIVE sortObject(_)
RECURSIVE SortReduce(_, _, _)
SortReduce(obj, keys, acc) ==
  IF keys = <<>> THEN acc
  ELSE SortReduce(obj, Tail(keys), ObjAssign(acc, Head(keys), sortObject(ObjGet(obj, Head(keys)))))

sortObject(obj) ==
  IF obj.t = "arr" THEN ArrV([k \in 1..Len(obj.v) |-> sortObject(obj.v[k])])
  ELSE IF obj.t = "obj" THEN ObjV(SortReduce(obj.v, SortStrings(ObjectKeys(obj.v)), <<>>))
  ELSE obj

sortJsonKeys(input, indent, message) ==
  Let(validateJson(input, message), LAMBDA result :
    IF ~result.valid \/ IsNullResult(result) THEN input
    ELSE JSONstringify(sortObject(result.parsed), indent))

(***************************************************************************)
(* compareJson                                                              *)
(***************************************************************************)
\* typeof x
TypeOf(x) ==
  CASE x.t = "str" -> "string"
    [] x.t = "num" -> "number"
    [] x.t = "bool" -> "boolean"
    [] OTHER -> "object"

\* leftObj === rightObj: value equality of primitives; two parsed objects or
\* arrays are never the same object.
\* === taken for the identity of two separately parsed values
StrictEquals_SameObject(x, y) == FALSE

StrictEquals(x, y) ==
  /\ x.t = y.t
  /\ x.t \in {"null", "bool", "num", "str"}
  /\ \/ x.v = y.v
     \/ x.t = "num" /\ [x.v EXCEPT !.neg = FALSE] = NumV(FALSE, 0, <<>>).v
                    /\ [y.v EXCEPT !.neg = FALSE] = NumV(FALSE, 0, <<>>).v

\* An array seen as an object: its indices are its keys.
AsObject(x) ==
  IF x.t = "arr" THEN [k \in 1..Len(x.v) |-> <<NatToDigits(k - 1), x.v[k]>>] ELSE x.v

DiffAdded(path, rightValue) ==
  [type |-> "added", path |-> path, leftValue |-> None, rightValue |-> Some(rightValue)]
DiffRemoved(path, leftValue) ==
  [type |-> "removed", path |-> path, leftValue |-> Some(leftValue), rightValue |-> None]
DiffChanged(path, leftValue, rightValue) ==
  [type |-> "changed", path |-> path, leftValue |-> Some(leftValue),
   rightValue |-> Some(rightValue)]

RECURSIVE compare(_, _, _)
RECURSIVE CompareItems(_, _, _, _)
RECURSIVE CompareLeftKeys(_, _, _, _)

\* The entries compare(leftObj, rightObj, path) pushes, in order.
compare(leftObj, rightObj, path) ==
  IF StrictEquals(leftObj, rightObj) THEN <<>>
  ELSE IF TypeOf(leftObj) # TypeOf(rightObj)
    THEN <<DiffChanged(path, leftObj, rightObj)>>
  ELSE IF leftObj.t = "arr" /\ rightObj.t = "arr"
    THEN CompareItems(leftObj.v, rightObj.v, path, 0)
  ELSE IF leftObj.t \in {"arr", "obj"} /\ rightObj.t \in {"arr", "obj"}
    THEN LET l == AsObject(leftObj)
             r == AsObject(rightObj)
             rightOnly == SelectSeq(ObjectKeys(r), LAMBDA key : ~HasKey(l, key))
         IN CompareLeftKeys(l, r, path, ObjectKeys(l))
              \o [k \in 1..Len(rightOnly) |->
                    DiffAdded(IF path # <<>> THEN path \o <<".">> \o rightOnly[k]
                              ELSE rightOnly[k],
                              ObjGet(r, rightOnly[k]))]
  ELSE <<DiffChanged(path, leftObj, rightObj)>>

\* compare of two arrays that reports an item only the right array has as removed
CompareItems_RightOnlyRemoved(l, r, path, i) ==
  IF i >= Max(Len(l), Len(r)) THEN <<>>
  ELSE LET itemPath == path \o <<"[">> \o NatToDigits(i) \o <<"]">>
       IN (IF i >= Len(l) THEN <<DiffRemoved(itemPath, r[i + 1])>>
           ELSE IF i >= Len(r) THEN <<DiffRemoved(itemPath, l[i + 1])>>
           ELSE compare(l[i + 1], r[i + 1], itemPath))
            \o CompareItems(l, r, path, i + 1)

CompareItems(l, r, path, i) ==
  IF i >= Max(Len(l), Len(r)) THEN <<>>
  ELSE LET itemPath == path \o <<"[">> \o NatToDigits(i) \o <<"]">>
       IN (IF i >= Len(l) THEN <<DiffAdded(itemPath, r[i + 1])>>
           ELSE IF i >= Len(r) THEN <<DiffRemoved(itemPath, l[i + 1])>>
           ELSE compare(l[i + 1], r[i + 1], itemPath))
            \o CompareItems(l, r, path, i + 1)

\* The loop over the left keys pushing 'removed' for a key both sides have.
CompareLeftKeys_NoDescent(l, r, path, keys) ==
  IF keys = <<>> THEN <<>>
  ELSE LET key == Head(keys)
           keyPath == IF path # <<>> THEN path \o <<".">> \o key ELSE key
       IN <<DiffRemoved(keyPath, ObjGet(l, key))>>
            \o CompareLeftKeys(l, r, path, Tail(keys))

CompareLeftKeys(l, r, path, keys) ==
  IF keys = <<>> THEN <<>>
  ELSE LET key == Head(keys)
           keyPath == IF path # <<>> THEN path \o <<".">> \o key ELSE key
       IN (IF ~HasKey(r, key) THEN <<DiffRemoved(keyPath, ObjGet(l, key))>>
           ELSE compare(ObjGet(l, key), ObjGet(r, key), keyPath))
            \o CompareLeftKeys(l, r, path, Tail(keys))

compareJson(left, right, leftMessage, rightMessage) ==
  Let(validateJson(left, leftMessage), LAMBDA leftResult :
    Let(validateJson(right, rightMessage), LAMBDA rightResult :
      IF ~leftResult.valid \/ ~rightResult.valid THEN <<>>
      ELSE compare(leftResult.parsed, rightResult.parsed, <<>>)))

(***************************************************************************)
(* getJsonStats                                                             *)
(***************************************************************************)
Kilo == 1024

\* formatBytes(bytes): the number, in tenths where it has a fraction, and unit.
RECURSIVE UnitIndex(_)
UnitIndex(bytes) == IF bytes < Kilo THEN 0 ELSE 1 + UnitIndex(bytes \div Kilo)

RECURSIVE Pow(_, _)
Pow(b, e) == IF e = 0 THEN 1 ELSE b * Pow(b, e - 1)

formatBytes(bytes) ==
  IF bytes = 0 THEN <<N(0), W("B")>>
  ELSE LET i == UnitIndex(bytes)
           tenths == (bytes * 20 + Pow(Kilo, i)) \div (2 * Pow(Kilo, i))
           unit == CASE i = 0 -> "B" [] i = 1 -> "KB" [] i = 2 -> "MB"
                     [] OTHER -> "undefined"
       IN IF tenths % 10 = 0 THEN <<N(tenths \div 10), W(unit)>>
          ELSE <<N(tenths \div 10), W("."), N(tenths % 10), W(unit)>>

\* new Blob([input]).size
BlobSize(input) == Len(input)

RECURSIVE SumSeq(_)
SumSeq(ns) == IF ns = <<>> THEN 0 ELSE Head(ns) + SumSeq(Tail(ns))
RECURSIVE MaxSeq(_)
MaxSeq(ns) == IF ns = <<>> THEN 0 ELSE Max(Head(ns), MaxSeq(Tail(ns)))

\* traverse(obj, depth): [keys |-> the keys it adds, maxDepth |-> the deepest
\* depth it visits].
RECURSIVE traverse(_, _)
\* traverse that records the depth of containers only, not of their leaves
traverse_ContainersOnly(obj, depth) ==
  LET children ==
        IF obj.t = "arr" THEN obj.v
        ELSE IF obj.t = "obj" THEN [k \in 1..Len(obj.v) |-> obj.v[k][2]]
        ELSE <<>>
      sub == [k \in 1..Len(children) |-> traverse(children[k], depth + 1)]
  IN [keys |-> (IF obj.t = "obj" THEN Len(obj.v) ELSE 0)
                 + SumSeq([k \in 1..Len(sub) |-> sub[k].keys]),
      maxDepth |-> IF obj.t \in {"arr", "obj"}
                     THEN Max(depth, MaxSeq([k \in 1..Len(sub) |-> sub[k].maxDepth]))
                     ELSE 0]

traverse(obj, depth) ==
  LET children ==
        IF obj.t = "arr" THEN obj.v
        ELSE IF obj.t = "obj" THEN [k \in 1..Len(obj.v) |-> obj.v[k][2]]
        ELSE <<>>
      sub == [k \in 1..Len(children) |-> traverse(children[k], depth + 1)]
  IN [keys |-> (IF obj.t = "obj" THEN Len(obj.v) ELSE 0)
                 + SumSeq([k \in 1..Len(sub) |-> sub[k].keys]),
      maxDepth |-> Max(depth, MaxSeq([k \in 1..Len(sub) |-> sub[k].maxDepth]))]

getJsonStats(input, message) ==
  Let(validateJson(input, message), LAMBDA result :
    IF ~result.valid \/ IsNullResult(result)
      THEN [keys |-> 0, depth |-> 0, size |-> formatBytes(BlobSize(input))]
      ELSE Let(traverse(result.parsed, 0), LAMBDA t :
             [keys |-> t.keys, depth |-> t.maxDepth,
              size |-> formatBytes(BlobSize(input))]))

(***************************************************************************)
(* The documents: up to MaxLines lines, all drawn from one family of lines. *)
(***************************************************************************)
MaxLines == 3

Documents ==
  LET \* { | } |  "a": 1 |  "a": 1, | "b": "c | "k" | (empty)
      MemberLines ==
        {<<"{">>,
         <<"}">>,
         <<" ", QUOTE, "a", QUOTE, ":", " ", "1">>,
         <<" ", QUOTE, "a", QUOTE, ":", " ", "1", ",">>,
         <<QUOTE, "b", QUOTE, ":", " ", QUOTE, "c">>,
         <<QUOTE, "k", QUOTE>>,
         <<>>}
      \* [ | ] | } | { | 1, | true | "\"]" |  \t
      ArrayLines ==
        {<<"[">>,
         <<"]">>,
         <<"}">>,
         <<"{">>,
         <<"1", ",">>,
         <<"t", "r", "u", "e">>,
         <<QUOTE, BSLASH, QUOTE, "]", QUOTE>>,
         <<" ", "\t">>}
      \* //1 | "k" | : 1 | 1. | "a": [ | } | null | \
      OddLines ==
        {<<BSLASH>>,
         <<"/", "/", "1">>,
         <<QUOTE, "k", QUOTE>>,
         <<":", " ", "1">>,
         <<"1", ".">>,
         <<QUOTE, "a", QUOTE, ":", " ", "[">>,
         <<"}">>,
         <<"n", "u", "l", "l">>}
      UpTo(F) == UNION {[1..k -> F] : k \in 1..MaxLines}
  IN {Join(ls) : ls \in UpTo(MemberLines) \cup UpTo(ArrayLines) \cup UpTo(OddLines)}

(***************************************************************************)
(* The texts of the structural operations: a value of at most MaxMembers    *)
(* members per container, written out in one of three layouts, then         *)
(* possibly damaged by the loss of one character; and the blank texts.      *)
(***************************************************************************)
MaxMembers == 2

Values ==
  LET One == NumV(FALSE, 1, <<>>)
      Atoms == {One, StrV(<<"x">>), NullV}
      \* "b": 1 | "a": "x" | "a": 1 | "10": null | "9": 1
      Members ==
        {<<<<"b">>, One>>,
         <<<<"a">>, StrV(<<"x">>)>>,
         <<<<"a">>, One>>,
         <<<<"1", "0">>, NullV>>,
         <<<<"9">>, One>>}
      \* flat containers, and each of them wrapped once more
      Flat ==
        {ArrV(a) : a \in UNION {[1..n -> Atoms] : n \in 0..MaxMembers}}
          \cup {ObjV(o) : o \in UNION {[1..n -> Members] : n \in 0..MaxMembers}}
      Wrapped == {ArrV(<<v>>) : v \in Flat} \cup {ObjV(<<<<<<"a">>, v>>>>) : v \in Flat}
  IN Atoms \cup Flat \cup Wrapped

\* The text of a value, its members in the order given (a key may repeat),
\* with sep after every ':' and ','.
RECURSIVE Write(_, _)
Write(val, sep) ==
  CASE val.t = "null" -> <<"n", "u", "l", "l">>
    [] val.t = "bool" -> IF val.v THEN <<"t", "r", "u", "e">> ELSE <<"f", "a", "l", "s", "e">>
    [] val.t = "num" -> NatToDigits(val.v.ip)
    [] val.t = "str" -> <<QUOTE>> \o val.v \o <<QUOTE>>
    [] val.t = "arr" ->
         <<"[">> \o JoinWith([k \in 1..Len(val.v) |-> Write(val.v[k], sep)], <<",">> \o sep)
           \o <<"]">>
    [] val.t = "obj" ->
         <<"{">> \o JoinWith([k \in 1..Len(val.v) |->
                               <<QUOTE>> \o val.v[k][1] \o <<QUOTE, ":">> \o sep
                                 \o Write(val.v[k][2], sep)],
                             <<",">> \o sep)
           \o <<"}">>

\* text without its d-th character (text itself when d = 0)
Without(text, d) ==
  IF d = 0 \/ d > Len(text) THEN text
  ELSE SubSeq(text, 1, d - 1) \o SubSeq(text, d + 1, Len(text))

\* Every value in every layout, whole or having lost its first, its middle
\* or its last character; the blank texts; and texts of other number
\* literals.
Texts ==
  LET Separators == {<<>>, <<" ">>, <<LF, " ">>}
      Losses(text) == {0, 1, (Len(text) + 1) \div 2, Len(text)}
      Written == {Write(v, sep) : <<v, sep>> \in Values \X Separators}
      \* 1e999 | [-1E+999] | -0 | {"a":-0.0} | 1e2 | 2.50 | 15e-1
      Numbers ==
        {<<"1", "e", "9", "9", "9">>,
         <<"[", "-", "1", "E", "+", "9", "9", "9", "]">>,
         <<"-", "0">>,
         <<"{", QUOTE, "a", QUOTE, ":", "-", "0", ".", "0", "}">>,
         <<"1", "e", "2">>,
         <<"2", ".", "5", "0">>,
         <<"1", "5", "e", "-", "1">>}
  IN {<<>>, <<" ", LF>>} \cup Numbers
       \cup UNION {{Without(text, d) : d \in Losses(text)} : text \in Written}

\* The right-hand texts of a comparison:
\* {"a":1,"b":null} | {"b":"x"} | [1,null] | "x" | {"a":1 | (blank)
RightTexts ==
  {Write(ObjV(<<<<<<"a">>, NumV(FALSE, 1, <<>>)>>, <<<<"b">>, NullV>>>>), <<>>),
   Write(ObjV(<<<<<<"b">>, StrV(<<"x">>)>>>>), <<>>),
   Write(ObjV(<<<<<<"b">>, StrV(<<"x">>)>>, <<<<"c">>, NullV>>>>), <<>>),
   Write(ArrV(<<NumV(FALSE, 1, <<>>), NullV>>), <<>>),
   Write(StrV(<<"x">>), <<>>),
   <<"{", QUOTE, "a", QUOTE, ":", "1">>,
   <<>>}

\* The indent arguments: none, the default, one beyond what JSON.stringify honours.
Indents == {0, DefaultIndent, MaxGap + 1}

(***************************************************************************)
(* State: the text handed to the operation, the second text of a            *)
(* comparison, the indent argument, the message JSON.parse threw on the     *)
(* text (NoMessage when it threw nothing), the operation called and what    *)
(* it returned.                                                             *)
(***************************************************************************)
VARIABLES input, other, indent, message, call, result,
          worker, calls, posted, delivered,
          tabs, activeTabId,
          effects, validation, stats, formats

textVars == <<input, other, indent, message, call, result>>

hookVars == <<worker, calls, posted, delivered>>

tabVars == <<tabs, activeTabId>>

asyncVars == <<effects, validation, stats, formats>>

vars == <<textVars, hookVars, tabVars, asyncVars>>

NoMessage == <<>>
NoResult == <<>>

Init ==
  /\ input \in Documents
  /\ other = <<>>
  /\ indent = DefaultIndent
  /\ message = NoMessage
  /\ call = "none"
  /\ result = NoResult
  /\ worker = "none"
  /\ calls = <<>>
  /\ posted = <<>>
  /\ delivered = {}
  /\ tabs = <<>>
  /\ activeTabId = 0
  /\ effects = <<>>
  /\ validation = NoResult
  /\ stats = NoResult
  /\ formats = <<>>

\* What a call of validateJson(text) sees JSON.parse throw: nothing when the
\* parser is not reached or accepts the text.
Thrown(text) ==
  IF Trim(text) = <<>> \/ JSONparse(text).ok THEN {NoMessage} ELSE NativeMessages(text)

\* validateJson(input)
ValidateJson ==
  /\ call = "none"
  /\ \E thrown \in Thrown(input) :
       /\ result' = validateJson(input, thrown)
       /\ message' = thrown
  /\ call' = "validateJson"
  /\ UNCHANGED <<input, other, indent>>
  /\ UNCHANGED <<hookVars, tabVars, asyncVars>>

\* trackBrackets(input)
TrackBrackets ==
  /\ call = "none"
  /\ result' = trackBrackets(input)
  /\ call' = "trackBrackets"
  /\ UNCHANGED <<input, other, indent, message>>
  /\ UNCHANGED <<hookVars, tabVars, asyncVars>>

Next == ValidateJson \/ TrackBrackets

Spec == Init /\ [][Next]_vars

(***************************************************************************)
(* The structural operations, each called once on a text.                   *)
(***************************************************************************)
InitOps ==
  /\ input \in Texts
  /\ other = <<>>
  /\ indent = DefaultIndent
  /\ message = NoMessage
  /\ call = "none"
  /\ result = NoResult
  /\ worker = "none"
  /\ calls = <<>>
  /\ posted = <<>>
  /\ delivered = {}
  /\ tabs = <<>>
  /\ activeTabId = 0
  /\ effects = <<>>
  /\ validation = NoResult
  /\ stats = NoResult
  /\ formats = <<>>

\* formatJson(input, indent)
FormatJson ==
  /\ call = "none"
  /\ \E n \in Indents, thrown \in Thrown(input) :
       /\ result' = formatJson(input, n, thrown)
       /\ indent' = n
       /\ message' = thrown
  /\ call' = "formatJson"
  /\ UNCHANGED <<input, other>>
  /\ UNCHANGED <<hookVars, tabVars, asyncVars>>

\* minifyJson(input)
MinifyJson ==
  /\ call = "none"
  /\ \E thrown \in Thrown(input) :
       /\ result' = minifyJson(input, thrown)
       /\ message' = thrown
  /\ call' = "minifyJson"
  /\ UNCHANGED <<input, other, indent>>
  /\ UNCHANGED <<hookVars, tabVars, asyncVars>>

\* sortJsonKeys(input, indent)
SortJsonKeys ==
  /\ call = "none"
  /\ \E n \in Indents, thrown \in Thrown(input) :
       /\ result' = sortJsonKeys(input, n, thrown)
       /\ indent' = n
       /\ message' = thrown
  /\ call' = "sortJsonKeys"
  /\ UNCHANGED <<input, other>>
  /\ UNCHANGED <<hookVars, tabVars, asyncVars>>

\* compareJson(input, right), right being the same text or another one
CompareJson ==
  /\ call = "none"
  /\ \E right \in RightTexts \cup {input}, thrown \in Thrown(input) :
       \E rightThrown \in Thrown(right) :
         /\ result' = compareJson(input, right, thrown, rightThrown)
         /\ other' = right
         /\ message' = thrown
  /\ call' = "compareJson"
  /\ UNCHANGED <<input, indent>>
  /\ UNCHANGED <<hookVars, tabVars, asyncVars>>

\* getJsonStats(input)
GetJsonStats ==
  /\ call = "none"
  /\ \E thrown \in Thrown(input) :
       /\ result' = getJsonStats(input, thrown)
       /\ message' = thrown
  /\ call' = "getJsonStats"
  /\ UNCHANGED <<input, other, indent>>
  /\ UNCHANGED <<hookVars, tabVars, asyncVars>>

NextOps == FormatJson \/ MinifyJson \/ SortJsonKeys \/ CompareJson \/ GetJsonStats

SpecOps == InitOps /\ [][NextOps]_vars

(***************************************************************************)
(* The worker (src/workers/json.worker.ts) and the hook that talks to it   *)
(* (src/hooks/useJsonWorker.ts).                                           *)
(*                                                                         *)
(* worker    "none" while workerRef.current is null, "running" once the    *)
(*           effect created the Worker, "terminated" after the cleanup     *)
(*           (workerRef.current keeps pointing at the terminated worker).  *)
(* calls     one record per call of validate/getStats/compare/format, in   *)
(*           call order; a call's index stands for its random id.          *)
(*             type, payload   what postMessage was given                  *)
(*             at              "unsent" (nothing was posted), "inbox"      *)
(*                             (posted, not yet handled), "handled",       *)
(*                             "lost" (discarded by terminate)             *)
(*             callback        the id is still in callbacksRef.current     *)
(*             settled         None while the promise is pending, else     *)
(*                             Some(value it resolved with)                *)
(* posted    every response the worker has posted, in order.               *)
(* delivered the indexes of those the hook's onmessage has consumed or     *)
(*           terminate has discarded.                                      *)
(* A payload is <<json>> or, for COMPARE, <<left, right>>.                 *)
(***************************************************************************)
MaxCalls == 2

\* What an operation can raise besides returning: nothing, or the engine's
\* RangeError when a deeply nested text exhausts the stack.
Raised ==
  {None, Some(Words(<<"Maximum", "call", "stack", "size", "exceeded">>))}

onmessage_NoReply(request, thrown, rightThrown, raised) == <<>>

\* self.onmessage: the responses it posts for one request.
onmessage(request, thrown, rightThrown, raised) ==
  IF raised # None
    THEN <<[type |-> "ERROR", id |-> request.id, payload |-> raised[1]]>>
  ELSE Let(request.payload[1], LAMBDA json :
    CASE request.type = "VALIDATE" ->
           <<[type |-> "VALIDATE_RESULT", id |-> request.id,
              payload |-> validateJson(json, thrown)]>>
      [] request.type = "STATS" ->
           <<[type |-> "STATS_RESULT", id |-> request.id,
              payload |-> getJsonStats(json, thrown)]>>
      [] request.type = "COMPARE" ->
           <<[type |-> "COMPARE_RESULT", id |-> request.id,
              payload |-> compareJson(json, request.payload[2],
                                      thrown, rightThrown)]>>
      [] request.type = "FORMAT" ->
           <<[type |-> "FORMAT_RESULT", id |-> request.id,
              payload |-> formatJson(json, DefaultIndent, thrown)]>>
      [] OTHER -> <<>>)

InitHook ==
  /\ input = <<>>
  /\ other = <<>>
  /\ indent = DefaultIndent
  /\ message = NoMessage
  /\ call = "none"
  /\ result = NoResult
  /\ worker = "none"
  /\ calls = <<>>
  /\ posted = <<>>
  /\ delivered = {}
  /\ tabs = <<>>
  /\ activeTabId = 0
  /\ effects = <<>>
  /\ validation = NoResult
  /\ stats = NoResult
  /\ formats = <<>>

\* The effect: new Worker(...), workerRef.current = worker.  It runs on
\* mount, and again after a cleanup when the component is mounted anew.
Mount ==
  /\ worker \in {"none", "terminated"}
  /\ worker' = "running"
  /\ UNCHANGED <<calls, posted, delivered, textVars, tabVars, asyncVars>>

\* The effect's cleanup: worker.terminate() discards the requests the worker
\* has not handled and the responses the hook has not received.
Unmount ==
  /\ worker = "running"
  /\ worker' = "terminated"
  /\ calls' = [id \in DOMAIN calls |->
                 IF calls[id].at = "inbox"
                   THEN [calls[id] EXCEPT !.at = "lost"] ELSE calls[id]]
  /\ delivered' = DOMAIN posted
  /\ UNCHANGED <<posted, textVars, tabVars, asyncVars>>

\* validate, getStats, compare, format: each awaits postMessage, which
\* registers resolve under a new id and posts when there is a worker.
postMessage ==
  /\ Len(calls) < MaxCalls
  /\ \E type \in {"VALIDATE", "STATS", "COMPARE", "FORMAT"},
        json \in {<<"{", QUOTE, "a", QUOTE, ":", "1", "}">>, <<"[", "1">>},
        right \in {<<"{", QUOTE, "a", QUOTE, ":", "1", "}">>, <<"[", "1">>} :
       /\ type # "COMPARE" => right = json
       /\ calls' = Append(calls,
            [type |-> type,
             payload |-> IF type = "COMPARE" THEN <<json, right>>
                                             ELSE <<json>>,
             at |-> IF worker = "running" THEN "inbox" ELSE "unsent",
             callback |-> TRUE,
             settled |-> None])
  /\ UNCHANGED <<worker, posted, delivered, textVars, tabVars, asyncVars>>

\* The worker takes its oldest request and runs self.onmessage on it.
selfOnmessage ==
  /\ worker = "running"
  /\ \E id \in DOMAIN calls :
       /\ calls[id].at = "inbox"
       /\ \A earlier \in 1..(id - 1) : calls[earlier].at # "inbox"
       /\ \E raised \in Raised, thrown \in Thrown(calls[id].payload[1]) :
            \E rightThrown \in Thrown(calls[id].payload[Len(calls[id].payload)]) :
              posted' = posted \o
                onmessage([type |-> calls[id].type, id |-> id,
                           payload |-> calls[id].payload],
                          thrown, rightThrown, raised)
       /\ calls' = [calls EXCEPT ![id].at = "handled"]
  /\ UNCHANGED <<worker, delivered, textVars, tabVars, asyncVars>>

workerOnmessage_OldestPending ==
  /\ \E k \in DOMAIN posted \ delivered :
       /\ delivered' = delivered \cup {k}
       /\ Let(posted[k], LAMBDA response :
            LET pending == {id \in DOMAIN calls : calls[id].callback}
            IN  calls' =
                  IF pending # {}
                    THEN Let(CHOOSE id \in pending : \A j \in pending : id <= j,
                           LAMBDA oldest :
                             [calls EXCEPT
                                ![oldest].callback = FALSE,
                                ![oldest].settled =
                                  IF response.type = "ERROR" THEN @
                                  ELSE Some(response.payload)])
                    ELSE calls)
  /\ UNCHANGED <<worker, posted, textVars, tabVars, asyncVars>>

\* worker.onmessage in the hook, on a response not yet received.  One worker's
\* responses arrive in the order it posted them; the handler does not rely
\* on it, and any response still on its way may be the one handled.
workerOnmessage ==
  /\ \E k \in DOMAIN posted \ delivered :
       /\ delivered' = delivered \cup {k}
       /\ Let(posted[k], LAMBDA response :
            calls' =
              IF calls[response.id].callback
                THEN [calls EXCEPT
                        ![response.id].callback = FALSE,
                        ![response.id].settled =
                          IF response.type = "ERROR" THEN @
                          ELSE Some(response.payload)]
                ELSE calls)
  /\ UNCHANGED <<worker, posted, textVars, tabVars, asyncVars>>

NextHook ==
  \/ Mount
  \/ Unmount
  \/ postMessage
  \/ selfOnmessage
  \/ workerOnmessage

\* React runs a mounted component's effect, the worker's event loop takes
\* every queued request, and the page's event loop delivers every queued
\* response; nothing obliges a component to be mounted again or unmounted.
\* The worker's fairness is written on what a selfOnmessage step does to
\* calls (the oldest queued request becomes handled): selfOnmessage steps
\* are the only steps of NextHook that do so.
SpecHook ==
  /\ InitHook
  /\ [][NextHook]_vars
  /\ WF_vars(Mount /\ worker = "none")
  /\ WF_calls(/\ worker = "running"
              /\ \E id \in DOMAIN calls :
                   /\ calls[id].at = "inbox"
                   /\ calls' = [calls EXCEPT ![id].at = "handled"])
  /\ WF_vars(workerOnmessage)

(***************************************************************************)
(* The tabs of JsonFormatter (src/components/JsonFormatter.tsx).           *)
(*                                                                         *)
(* tabs        the tab list kept by useLocalStorage('json-formatter-tabs') *)
(*             each tab a record id, name, content, splitEnabled,          *)
(*             splitContent.  A name is <<"Tab", n>> for "Tab n", or       *)
(*             another sequence for a name the user gave.                  *)
(* activeTabId the value kept under 'json-formatter-active-tab'.           *)
(* call        names the handler that ran last.                            *)
(* An id made by generateId is a number no tab of the list carries.        *)
(***************************************************************************)
MaxTabs == 3

MaxEdited == 2

defaultTab ==
  [id |-> 1, name |-> <<"Tab", 1>>, content |-> <<>>,
   splitEnabled |-> FALSE, splitContent |-> <<>>]

generateId == CHOOSE id \in 1..(MaxTabs + 1) : \A k \in DOMAIN tabs : tabs[k].id # id

\* map over the tabs: those named "Tab <digits>" are numbered 1, 2, ... anew.
renumberTabs(currentTabs) ==
  [k \in DOMAIN currentTabs |->
     IF Len(currentTabs[k].name) = 2 /\ currentTabs[k].name[1] = "Tab"
       THEN [currentTabs[k] EXCEPT !.name =
               <<"Tab", Cardinality({j \in 1..k :
                          /\ Len(currentTabs[j].name) = 2
                          /\ currentTabs[j].name[1] = "Tab"})>>]
       ELSE currentTabs[k]]

InitTabs ==
  /\ input = <<>>
  /\ other = <<>>
  /\ indent = DefaultIndent
  /\ message = NoMessage
  /\ call = "none"
  /\ result = NoResult
  /\ worker = "none"
  /\ calls = <<>>
  /\ posted = <<>>
  /\ delivered = {}
  /\ tabs = <<defaultTab>>
  /\ activeTabId = defaultTab.id
  /\ effects = <<>>
  /\ validation = NoResult
  /\ stats = NoResult
  /\ formats = <<>>

handleSplitToggle_KeepsContent ==
  /\ tabs' = [k \in DOMAIN tabs |->
                IF tabs[k].id # activeTabId THEN tabs[k]
                ELSE [tabs[k] EXCEPT !.splitEnabled = ~@]]
  /\ call' = "handleSplitToggle"
  /\ UNCHANGED <<activeTabId, input, other, indent, message, result, hookVars>>

handleSplitToggle ==
  /\ tabs' = [k \in DOMAIN tabs |->
                IF tabs[k].id # activeTabId THEN tabs[k]
                ELSE IF tabs[k].splitEnabled
                  THEN [tabs[k] EXCEPT !.splitEnabled = FALSE,
                                       !.splitContent = <<>>]
                  ELSE [tabs[k] EXCEPT !.splitEnabled = TRUE]]
  /\ call' = "handleSplitToggle"
  /\ UNCHANGED <<activeTabId, input, other, indent, message, result, hookVars>>

\* updateActiveContent and updateSplitContent, called by the editors'
\* onChange; the split editor is rendered only while the active tab's
\* splitEnabled is set.
updateContent ==
  /\ \E text \in {<<>>, <<"[", "1", "]">>}, split \in BOOLEAN :
       /\ split => \E k \in DOMAIN tabs :
                     tabs[k].id = activeTabId /\ tabs[k].splitEnabled
       /\ tabs' = [k \in DOMAIN tabs |->
                     IF tabs[k].id # activeTabId THEN tabs[k]
                     ELSE IF split
                       THEN [tabs[k] EXCEPT !.splitContent = text]
                       ELSE [tabs[k] EXCEPT !.content = text]]
       /\ call' = IF split THEN "updateSplitContent" ELSE "updateActiveContent"
  /\ UNCHANGED <<activeTabId, input, other, indent, message, result, hookVars>>

handleTabAdd ==
  /\ Len(tabs) < MaxTabs
  /\ tabs' = renumberTabs(Append(tabs,
                [id |-> generateId, name |-> <<"Tab", Len(tabs) + 1>>,
                 content |-> <<>>, splitEnabled |-> FALSE,
                 splitContent |-> <<>>]))
  /\ activeTabId' = generateId
  /\ call' = "handleTabAdd"
  /\ UNCHANGED <<input, other, indent, message, result, hookVars>>

handleTabClose_ActivatesFirst ==
  /\ \E idx \in DOMAIN tabs :
       Let(SelectSeq(tabs, LAMBDA t : t.id # tabs[idx].id), LAMBDA filtered :
         IF filtered = <<>>
           THEN /\ tabs' = <<[defaultTab EXCEPT !.id = generateId]>>
                /\ activeTabId' = generateId
           ELSE /\ tabs' = renumberTabs(filtered)
                /\ activeTabId' =
                     IF activeTabId # tabs[idx].id THEN activeTabId
                     ELSE filtered[1].id)
  /\ call' = "handleTabClose"
  /\ UNCHANGED <<input, other, indent, message, result, hookVars>>

handleTabClose ==
  /\ \E idx \in DOMAIN tabs :
       Let(SelectSeq(tabs, LAMBDA t : t.id # tabs[idx].id), LAMBDA filtered :
         IF filtered = <<>>
           THEN /\ tabs' = <<[defaultTab EXCEPT !.id = generateId]>>
                /\ activeTabId' = generateId
           ELSE /\ tabs' = renumberTabs(filtered)
                /\ activeTabId' =
                     IF activeTabId # tabs[idx].id THEN activeTabId
                     ELSE IF idx > 1 THEN filtered[idx - 1].id
                     ELSE filtered[1].id)
  /\ call' = "handleTabClose"
  /\ UNCHANGED <<input, other, indent, message, result, hookVars>>

\* onTabSelect={setActiveTabId} and handleTabRename, on a tab of the bar.
selectOrRename ==
  /\ \E k \in DOMAIN tabs, rename \in BOOLEAN :
       /\ tabs' = IF rename THEN [tabs EXCEPT ![k].name = <<"Data">>] ELSE tabs
       /\ activeTabId' = IF rename THEN activeTabId ELSE tabs[k].id
       /\ call' = IF rename THEN "handleTabRename" ELSE "setActiveTabId"
  /\ UNCHANGED <<input, other, indent, message, result, hookVars>>

\* The editors' handlers are explored while the bar holds at most MaxEdited
\* tabs; the bar's own handlers up to MaxTabs tabs.
NextTabs ==
  \/ Len(tabs) <= MaxEdited /\ handleSplitToggle /\ UNCHANGED asyncVars
  \/ Len(tabs) <= MaxEdited /\ updateContent /\ UNCHANGED asyncVars
  \/ handleTabAdd /\ UNCHANGED asyncVars
  \/ handleTabClose /\ UNCHANGED asyncVars
  \/ selectOrRename /\ UNCHANGED asyncVars

SpecTabs == InitTabs /\ [][NextTabs]_vars

(***************************************************************************)
(* The asynchronous work of JsonFormatter: the debounced validation and    *)
(* handleFormat, over the tabs above.                                      *)
(*                                                                         *)
(* effects    the runs of the debounce effect that can still act: the      *)
(*            last one is the run of the latest render (isMounted), the    *)
(*            others were cleaned up while their requests were pending.    *)
(*            timer is "set" or "fired"; request is "none", "pending"      *)
(*            (validate and getStats posted, Promise.all not yet           *)
(*            resolved) or "done".                                         *)
(* validation, stats  the state shown (setValidation, setStats).           *)
(* formats    the calls of handleFormat that await format(): the tab id    *)
(*            and the tab fields their closure holds, and whether the      *)
(*            content or the split content is being formatted.             *)
(*                                                                         *)
(* A call through useJsonWorker resolves with the worker's result of the   *)
(* operation or, the worker having answered ERROR, never: the hook's       *)
(* promise does not reject.  React runs the effect's cleanup and the new   *)
(* run with the render that follows a state change, before the next event. *)
(***************************************************************************)
MaxRuns == 2

MaxFormats == 1

activeTab ==
  IF \E k \in DOMAIN tabs : tabs[k].id = activeTabId
    THEN tabs[CHOOSE k \in DOMAIN tabs : tabs[k].id = activeTabId]
    ELSE IF tabs # <<>> THEN tabs[1] ELSE defaultTab

InitAsync ==
  /\ input = <<>>
  /\ other = <<>>
  /\ indent = DefaultIndent
  /\ message = NoMessage
  /\ call = "none"
  /\ result = NoResult
  /\ worker = "running"
  /\ calls = <<>>
  /\ posted = <<>>
  /\ delivered = {}
  /\ tabs = <<defaultTab>>
  /\ activeTabId = defaultTab.id
  /\ effects = <<[content |-> defaultTab.content, isMounted |-> TRUE,
                  timer |-> "set", request |-> "none"]>>
  /\ validation = [valid |-> TRUE, parsed |-> NullV]
  /\ stats = [keys |-> 0, depth |-> 0, size |-> <<N(0), W("B")>>]
  /\ formats = <<>>

\* The debounce effect after a render: when activeTab.content is another
\* string, the cleanup of the last run (isMounted = false, clearTimeout) and
\* a new run with a new timer.  A run cleaned up before its timer fired, or
\* after its results came, can do nothing more and is dropped.
useEffect ==
  IF activeTab'.content = activeTab.content
    THEN UNCHANGED effects
    ELSE Let(SelectSeq([k \in DOMAIN effects |->
                          [effects[k] EXCEPT !.isMounted = FALSE]],
                       LAMBDA run : run.request = "pending"),
           LAMBDA cleaned :
             /\ Len(cleaned) < MaxRuns
             /\ effects' = Append(cleaned,
                             [content |-> activeTab'.content, isMounted |-> TRUE,
                              timer |-> "set", request |-> "none"]))

\* The timer's callback, 300 ms after its run began and not cleared since.
setTimeout ==
  /\ \E e \in DOMAIN effects :
       /\ effects[e].timer = "set"
       /\ IF Trim(effects[e].content) = <<>>
            THEN /\ effects' = [effects EXCEPT ![e].timer = "fired",
                                               ![e].request = "done"]
                 /\ IF effects[e].isMounted
                      THEN /\ validation' = [valid |-> TRUE, parsed |-> NullV]
                           /\ stats' = [keys |-> 0, depth |-> 0,
                                        size |-> <<N(0), W("B")>>]
                      ELSE UNCHANGED <<validation, stats>>
            ELSE /\ effects' = [effects EXCEPT ![e].timer = "fired",
                                               ![e].request = "pending"]
                 /\ UNCHANGED <<validation, stats>>
  /\ UNCHANGED <<call, input, other, indent, message, result, hookVars, tabVars, formats>>

\* What follows await Promise.all([validate(content), getStats(content)]).
PromiseAll_NoMountedCheck ==
  /\ \E e \in DOMAIN effects :
       /\ effects[e].request = "pending"
       /\ \E thrown \in Thrown(effects[e].content) :
            /\ validation' = validateJson(effects[e].content, thrown)
            /\ stats' = getJsonStats(effects[e].content, thrown)
       /\ effects' = IF effects[e].isMounted
                       THEN [effects EXCEPT ![e].request = "done"]
                       ELSE SubSeq(effects, 1, e - 1) \o
                            SubSeq(effects, e + 1, Len(effects))
  /\ UNCHANGED <<call, input, other, indent, message, result, hookVars, tabVars, formats>>

PromiseAll ==
  /\ \E e \in DOMAIN effects :
       /\ effects[e].request = "pending"
       /\ IF effects[e].isMounted
            THEN \E thrown \in Thrown(effects[e].content) :
                   /\ validation' = validateJson(effects[e].content, thrown)
                   /\ stats' = getJsonStats(effects[e].content, thrown)
            ELSE UNCHANGED <<validation, stats>>
       /\ effects' = IF effects[e].isMounted
                       THEN [effects EXCEPT ![e].request = "done"]
                       ELSE SubSeq(effects, 1, e - 1) \o
                            SubSeq(effects, e + 1, Len(effects))
  /\ UNCHANGED <<call, input, other, indent, message, result, hookVars, tabVars, formats>>

\* handleFormat up to its first await: format(activeTab.content) when the
\* content is not empty, else format(activeTab.splitContent) when the split
\* is enabled and not empty, else nothing.
handleFormat ==
  /\ Len(formats) < MaxFormats
  /\ formats' =
       IF activeTab.content # <<>>
         THEN Append(formats, [id |-> activeTabId, tab |-> activeTab, at |-> "content"])
       ELSE IF activeTab.splitEnabled /\ activeTab.splitContent # <<>>
         THEN Append(formats, [id |-> activeTabId, tab |-> activeTab, at |-> "split"])
       ELSE formats
  /\ UNCHANGED <<call, input, other, indent, message, result, hookVars, tabVars,
                 effects, validation, stats>>

\* handleFormat after an await: updateActiveContent(formatted) and then the
\* split's format request, or updateSplitContent(formattedSplit); both
\* update functions are those of the render handleFormat was made in.
formatted ==
  /\ \E f \in DOMAIN formats :
       Let(formats[f], LAMBDA closure :
         Let(IF closure.at = "content" THEN closure.tab.content
             ELSE closure.tab.splitContent, LAMBDA json :
           \E thrown \in Thrown(json) :
             /\ tabs' = [k \in DOMAIN tabs |->
                           IF tabs[k].id # closure.id THEN tabs[k]
                           ELSE IF closure.at = "content"
                             THEN [tabs[k] EXCEPT !.content =
                                     formatJson(json, DefaultIndent, thrown)]
                             ELSE [tabs[k] EXCEPT !.splitContent =
                                     formatJson(json, DefaultIndent, thrown)]]
             /\ formats' =
                  IF /\ closure.at = "content"
                     /\ closure.tab.splitEnabled
                     /\ closure.tab.splitContent # <<>>
                    THEN [formats EXCEPT ![f].at = "split"]
                    ELSE SubSeq(formats, 1, f - 1) \o
                         SubSeq(formats, f + 1, Len(formats))))
  /\ UNCHANGED <<activeTabId, call, input, other, indent, message, result, hookVars,
                 validation, stats>>
  /\ useEffect

\* The handlers of the tabs, each followed by its render, with up to
\* MaxEdited tabs open, none renamed and the split editor closed; call names
\* the last of them.
NextAsync ==
  \/ updateContent /\ useEffect /\ UNCHANGED <<validation, stats, formats>>
  \/ Len(tabs) < MaxEdited /\ handleTabAdd /\ useEffect
       /\ UNCHANGED <<validation, stats, formats>>
  \/ selectOrRename /\ call' = "setActiveTabId" /\ useEffect
       /\ UNCHANGED <<validation, stats, formats>>
  \/ setTimeout
  \/ PromiseAll
  \/ handleFormat
  \/ formatted

SpecAsync == InitAsync /\ [][NextAsync]_vars

(***************************************************************************)
(* Properties of validateJson and detectJsonError                           *)
(***************************************************************************)
Validated == call = "validateJson"
Invalid == Validated /\ ~result.valid
InputLines == Split(input)
Suggestion == result.error.suggestion[1]
Mentions(text, word) == HasWords(text, <<word>>)

\* C1: validateJson returns a ValidationResult for every text: a non-blank
\* text the parser accepts gives exactly {valid: true, parsed: value}, a
\* non-blank text the parser rejects gives {valid: false, error} with a
\* message and no parsed value.
C1_ValidateReturnsResult ==
  Validated =>
    /\ "valid" \in DOMAIN result
    /\ (Trim(input) # <<>> /\ JSONparse(input).ok =>
          result = [valid |-> TRUE, parsed |-> JSONparse(input).v])
    /\ (Trim(input) # <<>> /\ ~JSONparse(input).ok =>
          /\ DOMAIN result = {"valid", "error"}
          /\ ~result.valid
          /\ result.error.message # <<>>)

C1_Witness ==
  /\ Validated
  /\ Trim(input) # <<>>
  /\ ~JSONparse(input).ok
  /\ ~result.valid
  /\ result.error.message = Words(<<"Unterminated", "string">>)

\* C2: every invalid result carries a non-empty suggestion, whichever check
\* or fallback branch produced the diagnosis.
C2_SuggestionNeverEmpty ==
  Invalid => result.error.suggestion # None /\ Suggestion # <<>>

C2_Witness ==
  /\ Invalid
  /\ result.error.line = None
  /\ result.error.suggestion = Some(SuggestGeneric)

\* The six checks in the order the claim gives them.
ChecksInOrder(text, msg) ==
  <<UnterminatedCheck(Split(text), ToLowerCase(msg)),
    MissingCommaCheck(Split(text)),
    MissingColonCheck(Split(text)),
    BracketCheck(text),
    TrailingCommaCheck(Split(text)),
    DuplicateCheck(Split(text))>>

FirstProduced(checks, otherwise) ==
  LET hit == FirstIndex(Len(checks), LAMBDA k : checks[k] # None)
  IN IF hit = None THEN otherwise ELSE checks[hit[1]][1]

ResultDiagnosis ==
  Diag(result.error.line, result.error.column, result.error.suggestion)

\* C3: the diagnosis returned is that of the first check, in the order
\* unterminated string, missing comma, missing colon, brackets, trailing
\* comma, duplicate key, that produces one, else the fallback's.
C3_FirstCheckWins ==
  Invalid =>
    ResultDiagnosis = FirstProduced(ChecksInOrder(input, message), Fallback(input, message))

\* An earlier and a later check both produce, with different diagnoses.
C3_Witness ==
  /\ Invalid
  /\ LET checks == ChecksInOrder(input, message)
     IN /\ checks[2] # None
        /\ checks[4] # None
        /\ checks[2] # checks[4]
        /\ ResultDiagnosis = checks[2][1]

\* The line pair of the missing-comma claim, in the claim's words.
C4_ValueTerminated(current) ==
  \/ current[Len(current)] \in {QUOTE, "}", "]", "."} \cup Digits
  \/ EndsWith(current, <<"t", "r", "u", "e">>)
  \/ EndsWith(current, <<"f", "a", "l", "s", "e">>)
  \/ EndsWith(current, <<"n", "u", "l", "l">>)

C4_Pair(lines, i) ==
  LET current == Trim(lines[i])
      next == Trim(lines[i + 1])
  IN /\ current # <<>>
     /\ ~StartsWith(current, <<"/", "/">>)
     /\ current[Len(current)] \notin {",", "{", "["}
     /\ C4_ValueTerminated(current)
     /\ next # <<>>
     /\ next[1] = QUOTE

C4_FirstPair == FirstIndex(Len(InputLines) - 1, LAMBDA i : C4_Pair(InputLines, i))

\* C4: when the unterminated-string check yields nothing and some adjacent
\* line pair is as the claim describes, the diagnosis is at the first such
\* pair: its line index, the length of that line, a suggestion with 'comma'.
C4_MissingComma ==
  (/\ Invalid
   /\ UnterminatedCheck(InputLines, ToLowerCase(message)) = None
   /\ C4_FirstPair # None)
  => /\ result.error.line = C4_FirstPair
     /\ result.error.column = Some(Len(InputLines[C4_FirstPair[1]]))
     /\ Mentions(Suggestion, "comma")

\* The reported line is indented and is not the first line.
C4_Witness ==
  /\ Invalid
  /\ UnterminatedCheck(InputLines, ToLowerCase(message)) = None
  /\ C4_FirstPair # None
  /\ C4_FirstPair[1] > 1
  /\ Len(Trim(InputLines[C4_FirstPair[1]])) < Len(InputLines[C4_FirstPair[1]])
  /\ result.error.line = C4_FirstPair

\* The line of the trailing-comma claim.
C8_Trailing(lines, i) ==
  LET current == Trim(lines[i])
  IN /\ i < Len(lines)
     /\ current # <<>>
     /\ current[Len(current)] = ","
     /\ Trim(lines[i + 1]) \in {<<"}">>, <<"]">>}

C8_First == FirstIndex(Len(InputLines), LAMBDA i : C8_Trailing(InputLines, i))

C8_ChecksOneToFourSilent ==
  \A k \in 1..4 : ChecksInOrder(input, message)[k] = None

\* C8: when checks 1 to 4 yield nothing, the first line ending with ',' whose
\* next line is exactly '}' or ']' is reported: its line index, no column, a
\* suggestion with 'trailing comma' naming 'brace' for '}', 'bracket' for ']'.
C8_TrailingComma ==
  (Invalid /\ C8_ChecksOneToFourSilent /\ C8_First # None)
  => LET closer == Trim(InputLines[C8_First[1] + 1])
     IN /\ result.error.line = C8_First
        /\ result.error.column = None
        /\ HasWords(Suggestion, <<"trailing", "comma">>)
        /\ Mentions(Suggestion, "brace") <=> closer = <<"}">>
        /\ Mentions(Suggestion, "bracket") <=> closer = <<"]">>

C8_Witness ==
  /\ Invalid
  /\ C8_ChecksOneToFourSilent
  /\ C8_First # None
  /\ Trim(InputLines[C8_First[1] + 1]) = <<"]">>
  /\ Mentions(Suggestion, "bracket")

\* C9: the empty text and every text of spaces, tabs and newlines only is
\* valid with parsed = null; the parser, which rejects every such text, is
\* not asked.
C9_BlankIsValid ==
  (Validated /\ \A k \in 1..Len(input) : input[k] \in {" ", "\t", LF})
  => /\ result = [valid |-> TRUE, parsed |-> NullV]
     /\ message = NoMessage
     /\ ~JSONparse(input).ok

C9_Witness ==
  /\ Validated
  /\ \A k \in 1..Len(input) : input[k] \in {" ", "\t", LF}
  /\ \A c \in {" ", "\t", LF} : Includes(input, c)
  /\ result = [valid |-> TRUE, parsed |-> NullV]

(***************************************************************************)
(* Properties of trackBrackets, against the text's delimiters outside       *)
(* string literals                                                          *)
(***************************************************************************)
\* Every character of the text but the line feeds, with its 1-based line and
\* column.
RECURSIVE FlatFrom(_, _)
FlatFrom(lines, l) ==
  IF l > Len(lines) THEN <<>>
  ELSE [c \in 1..Len(lines[l]) |-> [char |-> lines[l][c], line |-> l, column |-> c]]
         \o FlatFrom(lines, l + 1)

FlatInput == FlatFrom(InputLines, 1)

\* A character is escaped when an odd run of backslashes ends just before it.
BackslashRun(f, k) ==
  CHOOSE r \in 0..(k - 1) :
    /\ \A j \in (k - r)..(k - 1) : f[j].char = BSLASH
    /\ (r < k - 1 => f[k - r - 1].char # BSLASH)

EscapedAt(f, k) == BackslashRun(f, k) % 2 = 1
StringQuoteAt(f, k) == f[k].char = QUOTE /\ ~EscapedAt(f, k)
OutsideStringAt(f, k) ==
  /\ ~EscapedAt(f, k)
  /\ Cardinality({j \in 1..(k - 1) : StringQuoteAt(f, j)}) % 2 = 0

\* The delimiters outside strings, in text order.
Delimiters(f) ==
  LET idx == SelectSeq([k \in 1..Len(f) |-> k],
                       LAMBDA k : f[k].char \in {"{", "}", "[", "]"} /\ OutsideStringAt(f, k))
  IN [j \in 1..Len(idx) |-> f[idx[j]]]

IsOpener(d) == d.char \in {"{", "["}
Closes(open, close) == (open = "{" /\ close = "}") \/ (open = "[" /\ close = "]")

\* The openers still open after the first n delimiters.
RECURSIVE OpenAfter(_, _)
OpenAfter(ds, n) ==
  IF n = 0 THEN <<>>
  ELSE LET st == OpenAfter(ds, n - 1)
       IN IF IsOpener(ds[n]) THEN Append(st, ds[n])
          ELSE SubSeq(st, 1, Len(st) - 1)

BadCloserAt(ds, n) ==
  /\ ~IsOpener(ds[n])
  /\ LET st == OpenAfter(ds, n - 1)
     IN st = <<>> \/ ~Closes(st[Len(st)].char, ds[n].char)

FirstBadCloser(ds) == FirstIndex(Len(ds), LAMBDA n : BadCloserAt(ds, n))

Tracked == call = "trackBrackets"
ClosingName(char) == IF char \in {"{", "}"} THEN "brace" ELSE "bracket"
OtherName(char) == IF char \in {"{", "}"} THEN "bracket" ELSE "brace"

\* C6: the first closer outside a string that finds the stack empty or an
\* opener of the other kind ends the pass with an error at that closer's
\* line and column: 'Unexpected closing brace/bracket' on an empty stack,
\* 'Mismatched bracket' with the expected closer and the opener's line
\* otherwise.
C6_FirstBadCloserReported ==
  LET ds == Delimiters(FlatInput)
      bad == FirstBadCloser(ds)
  IN (Tracked /\ bad # None) =>
       LET closer == ds[bad[1]]
           st == OpenAfter(ds, bad[1] - 1)
           text == result.suggestion[1]
       IN /\ result.error
          /\ result.line = Some(closer.line)
          /\ result.column = Some(closer.column)
          /\ IF st = <<>>
               THEN HasWords(text, <<"Unexpected", "closing", ClosingName(closer.char)>>)
               ELSE /\ HasWords(text, <<"Mismatched", "bracket">>)
                    /\ HasWords(text, <<"expected",
                                        IF st[Len(st)].char = "{" THEN "}" ELSE "]">>)
                    /\ SubSeq(text, Len(text) - 2, Len(text))
                         = <<W("at"), W("line"), N(st[Len(st)].line)>>

\* A mismatch whose opener is on an earlier line, after a string that holds
\* a delimiter.
C6_Witness ==
  LET ds == Delimiters(FlatInput)
      bad == FirstBadCloser(ds)
  IN /\ Tracked
     /\ bad # None
     /\ OpenAfter(ds, bad[1] - 1) # <<>>
     /\ OpenAfter(ds, bad[1] - 1)[Len(OpenAfter(ds, bad[1] - 1))].line < ds[bad[1]].line
     /\ Len(ds) < Cardinality({k \in 1..Len(FlatInput) :
                                 FlatInput[k].char \in {"{", "}", "[", "]"}})
     /\ result.line = Some(ds[bad[1]].line)

\* C7: at the end of the input, with no closer error before and openers left
\* on the stack, the innermost unclosed opener is reported at its own line
\* and column, named 'brace' for '{' and 'bracket' for '['.
C7_InnermostUnclosedReported ==
  LET ds == Delimiters(FlatInput)
      st == OpenAfter(ds, Len(ds))
  IN (Tracked /\ FirstBadCloser(ds) = None /\ st # <<>>) =>
       /\ result.error
       /\ result.line = Some(st[Len(st)].line)
       /\ result.column = Some(st[Len(st)].column)
       /\ HasWords(result.suggestion[1], <<"Unclosed", ClosingName(st[Len(st)].char)>>)
       /\ ~Mentions(result.suggestion[1], OtherName(st[Len(st)].char))

\* Two openers of different kinds are left open.
C7_Witness ==
  LET ds == Delimiters(FlatInput)
      st == OpenAfter(ds, Len(ds))
  IN /\ Tracked
     /\ FirstBadCloser(ds) = None
     /\ Len(st) >= 2
     /\ st[1].char # st[Len(st)].char
     /\ result.line = Some(st[Len(st)].line)

\* The text with a closing quote added at the end of line k.
C5_QuoteAdded(k) ==
  Join([l \in 1..Len(InputLines) |->
          IF l = k THEN Append(InputLines[l], QUOTE) ELSE InputLines[l]])

\* The only defect of the text is a string that lacks its closing quote on
\* line k.
C5_OnlyDefectAt(k) ==
  /\ Trim(input) # <<>>
  /\ ~JSONparse(input).ok
  /\ countUnescapedQuotes(InputLines[k]) % 2 = 1
  /\ JSONparse(C5_QuoteAdded(k)).ok

\* C5: a text whose only defect is a string missing its closing quote on
\* line k is invalid with error.line = k and a suggestion with 'quote'.
C5_UnterminatedLineReported ==
  Validated =>
    \A k \in 1..Len(InputLines) :
      C5_OnlyDefectAt(k) =>
        /\ ~result.valid
        /\ result.error.line = Some(k)
        /\ Mentions(Suggestion, "quote")

(***************************************************************************)
(* Properties of the structural operations                                  *)
(***************************************************************************)
\* validateJson rejects the text: it is not blank and the parser refuses it.
Rejected(text) == Trim(text) # <<>> /\ ~JSONparse(text).ok

TextOperations == {"formatJson", "minifyJson", "sortJsonKeys"}

\* Every character a text can hold.
TextAlphabet ==
  {QUOTE, BSLASH, LF, "\t", " ", "{", "}", "[", "]", ":", ",", "n", "u", "l",
   "a", "b", "x", "t", "r", "e", "f", "s", "E", "+", "-", "."} \cup Digits

\* C10: formatJson, minifyJson, sortJsonKeys, compareJson and getJsonStats
\* always return (a text, a list of differences, a record of statistics);
\* on a text validateJson rejects, formatJson, minifyJson and sortJsonKeys
\* return that text unchanged, compareJson returns the empty list when
\* either of its texts is rejected, and getJsonStats returns keys = 0 and
\* depth = 0.
C10_InvalidInputIsNoOp ==
  /\ call \in TextOperations =>
       /\ \A k \in DOMAIN result : result[k] \in TextAlphabet
       /\ Rejected(input) => result = input
  /\ call = "compareJson" =>
       /\ \A k \in DOMAIN result : result[k].type \in {"added", "removed", "changed"}
       /\ (Rejected(input) \/ Rejected(other)) => result = <<>>
  /\ call = "getJsonStats" =>
       /\ result.keys \in Nat /\ result.depth \in Nat
       /\ Rejected(input) => result.keys = 0 /\ result.depth = 0

\* a rejected text holding a complete container went through formatJson
C10_Witness ==
  /\ call = "formatJson"
  /\ Rejected(input)
  /\ \E k \in DOMAIN input : input[k] \in {"}", "]"}
  /\ result = input
  /\ message # NoMessage

(***************************************************************************)
(* Round trips through the serializer                                       *)
(***************************************************************************)
\* validateJson(text).parsed of a text validateJson accepts
ParsedOf(text) == IF Trim(text) = <<>> THEN NullV ELSE JSONparse(text).v

\* Deep equality of two values: the same type and the same content, the
\* members of an object in any order, 0 and -0 taken for equal.
RECURSIVE DeepEqual(_, _)
DeepEqual(x, y) ==
  /\ x.t = y.t
  /\ CASE x.t = "num" ->
            \/ x.v = y.v
            \/ /\ ~x.v.inf /\ x.v.ip = 0 /\ x.v.fr = <<>>
               /\ ~y.v.inf /\ y.v.ip = 0 /\ y.v.fr = <<>>
       [] x.t = "arr" ->
            /\ Len(x.v) = Len(y.v)
            /\ \A k \in 1..Len(x.v) : DeepEqual(x.v[k], y.v[k])
       [] x.t = "obj" ->
            /\ Len(x.v) = Len(y.v)
            /\ \A k \in 1..Len(x.v) :
                 \E j \in 1..Len(y.v) :
                   x.v[k][1] = y.v[j][1] /\ DeepEqual(x.v[k][2], y.v[j][2])
       [] OTHER -> x.v = y.v

\* C11: for every text t that validateJson accepts, minifyJson(t) is
\* accepted too and parses to a value deep-equal to the value of t.
C11_MinifyRoundTrip ==
  (call = "minifyJson" /\ ~Rejected(input)) =>
    /\ ~Rejected(result)
    /\ DeepEqual(ParsedOf(result), ParsedOf(input))

\* C12: for every text t that validateJson accepts, formatJson(formatJson(t))
\* and formatJson(t) parse to deep-equal values, and both to a value
\* deep-equal to the value of t.
C12_FormatIdempotent ==
  (call = "formatJson" /\ ~Rejected(input)) =>
    LET again == formatJson(result, indent, NoMessage)
    IN /\ ~Rejected(result) /\ ~Rejected(again)
       /\ DeepEqual(ParsedOf(again), ParsedOf(result))
       /\ DeepEqual(ParsedOf(result), ParsedOf(input))

(***************************************************************************)
(* Properties of sortJsonKeys                                               *)
(***************************************************************************)
\* Every object of the tree, at every level, lists its keys in ascending
\* lexical order.
RECURSIVE KeysAscending(_)
KeysAscending(tree) ==
  CASE tree.t = "arr" -> \A k \in 1..Len(tree.v) : KeysAscending(tree.v[k])
    [] tree.t = "obj" ->
         /\ \A k \in 1..(Len(tree.v) - 1) : StringLess(tree.v[k][1], tree.v[k + 1][1])
         /\ \A k \in 1..Len(tree.v) : KeysAscending(tree.v[k][2])
    [] OTHER -> TRUE

\* C13: for every text t that validateJson accepts, sortJsonKeys(t) is the
\* serialization of a tree whose objects all list their keys in ascending
\* lexical order, that tree is deep-equal to the value of t, and sorting
\* the sorted text again returns it unchanged.
C13_SortedDeepEqualIdempotent ==
  (call = "sortJsonKeys" /\ ~Rejected(input) /\ ParsedOf(input) # NullV) =>
    LET tree == sortObject(ParsedOf(input))
    IN /\ result = JSONstringify(tree, indent)
       /\ KeysAscending(tree)
       /\ DeepEqual(tree, ParsedOf(input))
       /\ sortJsonKeys(result, indent, NoMessage) = result

(***************************************************************************)
(* Properties of compareJson                                                *)
(***************************************************************************)
BothAccepted == call = "compareJson" /\ ~Rejected(input) /\ ~Rejected(other)

\* C14: compareJson emits no entry of type 'unchanged' and no 'changed'
\* entry whose two values are deep-equal; when the two texts have deep-equal
\* values, in particular when they are the same text, it returns the empty
\* list.
C14_NoEntryWhereDeepEqual ==
  BothAccepted =>
    /\ \A k \in DOMAIN result :
         /\ result[k].type \in {"added", "removed", "changed"}
         /\ result[k].type = "changed" =>
              ~DeepEqual(result[k].leftValue[1], result[k].rightValue[1])
    /\ DeepEqual(ParsedOf(input), ParsedOf(other)) => result = <<>>

\* a text holding a container within a container was compared with itself
C14_Witness ==
  /\ BothAccepted
  /\ other = input
  /\ ParsedOf(input).t \in {"arr", "obj"}
  /\ \E k \in DOMAIN ParsedOf(input).v :
       LET member == ParsedOf(input).v[k]
       IN IF ParsedOf(input).t = "arr" THEN member.t = "obj" /\ member.v # <<>>
          ELSE member[2].t = "arr" /\ member[2].v # <<>>
  /\ result = <<>>

\* Wherever the two values, or two members of theirs under the same keys or
\* indices, have different JSON types, the entries for that path are one
\* 'changed' entry carrying both values.
RECURSIVE TypeChangeIsOneEntry(_, _, _, _)
TypeChangeIsOneEntry(l, r, path, entries) ==
  IF l.t # r.t
    THEN entries = <<[type |-> "changed", path |-> path,
                      leftValue |-> <<l>>, rightValue |-> <<r>>]>>
  ELSE IF l.t = "arr"
    THEN \A k \in 1..Len(l.v) :
           k <= Len(r.v) =>
             LET itemPath == path \o <<"[">> \o NatToDigits(k - 1) \o <<"]">>
             IN TypeChangeIsOneEntry(l.v[k], r.v[k], itemPath,
                                     compare(l.v[k], r.v[k], itemPath))
  ELSE IF l.t = "obj"
    THEN \A k \in 1..Len(l.v) : \A j \in 1..Len(r.v) :
           l.v[k][1] = r.v[j][1] =>
             LET keyPath == IF path = <<>> THEN l.v[k][1] ELSE path \o <<".">> \o l.v[k][1]
             IN TypeChangeIsOneEntry(l.v[k][2], r.v[j][2], keyPath,
                                     compare(l.v[k][2], r.v[j][2], keyPath))
  ELSE TRUE

\* C15: whenever the left and the right value at a path have different JSON
\* types (object, array, string, number, boolean, null), compareJson emits
\* exactly one 'changed' entry at that path, carrying both values, and
\* nothing from within either value.
C15_TypeChangeIsOneChanged ==
  BothAccepted => TypeChangeIsOneEntry(ParsedOf(input), ParsedOf(other), <<>>, result)

\* Every entry of type from in entries has its mirror of type to in mirrored:
\* the same path and the same value on the other side.
Mirrored(entries, from, mirrored, to) ==
  \A k \in DOMAIN entries :
    entries[k].type = from =>
      \E j \in DOMAIN mirrored :
        /\ mirrored[j].type = to
        /\ mirrored[j].path = entries[k].path
        /\ DeepEqual((mirrored[j].leftValue \o mirrored[j].rightValue)[1],
                     (entries[k].leftValue \o entries[k].rightValue)[1])

\* C16: for all accepted texts a and b, compareJson(a, b) holds an 'added'
\* entry with a path and a right value exactly when compareJson(b, a) holds
\* a 'removed' entry with that path and that value as its left value.
C16_AddedRemovedAntisymmetric ==
  BothAccepted =>
    LET back == compareJson(other, input, NoMessage, NoMessage)
    IN /\ Mirrored(result, "added", back, "removed")
       /\ Mirrored(back, "removed", result, "added")
       /\ Mirrored(result, "removed", back, "added")
       /\ Mirrored(back, "added", result, "removed")

\* a comparison returned both an entry for an added member and one for a
\* removed member
C16_Witness ==
  /\ BothAccepted
  /\ \E k \in DOMAIN result : result[k].type = "added"
  /\ \E k \in DOMAIN result : result[k].type = "removed"

(***************************************************************************)
(* Properties of getJsonStats                                               *)
(***************************************************************************)
\* The members of a container, without their keys.
MembersOf(v) ==
  IF v.t = "arr" THEN v.v
  ELSE IF v.t = "obj" THEN [k \in 1..Len(v.v) |-> v.v[k][2]]
  ELSE <<>>

\* The number of keys of all the objects of a value.
RECURSIVE KeyCount(_)
KeyCount(v) ==
  (IF v.t = "obj" THEN Len(v.v) ELSE 0)
    + SumSeq([k \in 1..Len(MembersOf(v)) |-> KeyCount(MembersOf(v)[k])])

\* The nesting depth of a value: 0 for a value without members, else one
\* more than the deepest of its members.
RECURSIVE NestingDepth(_)
NestingDepth(v) ==
  IF MembersOf(v) = <<>> THEN 0
  ELSE 1 + MaxSeq([k \in 1..Len(MembersOf(v)) |-> NestingDepth(MembersOf(v)[k])])

\* C17: on an accepted text getJsonStats returns keys = the number of object
\* keys over all nesting levels and depth = the maximum nesting depth, the
\* root being at depth 0 and each descent into an array element or object
\* member adding 1; on a rejected, blank or null text it returns keys = 0
\* and depth = 0.
C17_StatsCountKeysAndDepth ==
  call = "getJsonStats" =>
    IF Rejected(input) \/ ParsedOf(input) = NullV
      THEN result.keys = 0 /\ result.depth = 0
      ELSE /\ result.keys = KeyCount(ParsedOf(input))
           /\ result.depth = NestingDepth(ParsedOf(input))

\* the statistics of an object within an object: three keys, depth two
C17_Witness ==
  /\ call = "getJsonStats"
  /\ ~Rejected(input)
  /\ ParsedOf(input).t = "obj"
  /\ \E k \in DOMAIN ParsedOf(input).v : ParsedOf(input).v[k][2].t = "obj"
  /\ result.keys = 3
  /\ result.depth = 2

(***************************************************************************)
(* Properties of the worker and of useJsonWorker                           *)
(***************************************************************************)

\* C18: every call made through useJsonWorker eventually resolves: once a
\* call has been made, its promise is eventually settled with a value,
\* whether or not the worker existed, was terminated, or answered ERROR.
C18_EveryCallResolves ==
  \A id \in 1..MaxCalls :
    (Len(calls) >= id) ~> (Len(calls) >= id /\ calls[id].settled # None)

ResponsesTo(id) == {k \in DOMAIN posted : posted[k].id = id}

ResultOf(id, response) ==
  Let(calls[id].payload, LAMBDA payload :
    \E thrown \in Thrown(payload[1]), rightThrown \in Thrown(payload[Len(payload)]) :
      response.payload =
        CASE calls[id].type = "VALIDATE" -> validateJson(payload[1], thrown)
          [] calls[id].type = "STATS" -> getJsonStats(payload[1], thrown)
          [] calls[id].type = "COMPARE" ->
               compareJson(payload[1], payload[2], thrown, rightThrown)
          [] calls[id].type = "FORMAT" ->
               formatJson(payload[1], DefaultIndent, thrown))

\* C19: for every request the worker has handled it has posted exactly one
\* response, carrying the request's id: either ERROR with the raised
\* message, or <type>_RESULT with the operation's result for the payload.
\* A request it has not handled has no response.
C19_OneResponsePerRequest ==
  \A id \in DOMAIN calls :
    IF calls[id].at = "handled"
      THEN /\ Cardinality(ResponsesTo(id)) = 1
           /\ \A k \in ResponsesTo(id) :
                \/ /\ posted[k].type = "ERROR"
                   /\ Some(posted[k].payload) \in Raised
                \/ /\ <<calls[id].type, posted[k].type>> \in
                        {<<"VALIDATE", "VALIDATE_RESULT">>,
                         <<"STATS", "STATS_RESULT">>,
                         <<"COMPARE", "COMPARE_RESULT">>,
                         <<"FORMAT", "FORMAT_RESULT">>}
                   /\ ResultOf(id, posted[k])
      ELSE ResponsesTo(id) = {}

\* The worker has answered one request with ERROR and another with a result.
C19_Witness ==
  /\ Len(posted) = 2
  /\ posted[1].type = "ERROR"
  /\ posted[2].type = "COMPARE_RESULT"
  /\ posted[1].id # posted[2].id
  /\ \A id \in DOMAIN calls : calls[id].at = "handled"

(***************************************************************************)
(* Properties of the tabs of JsonFormatter                                 *)
(***************************************************************************)

C21_OddLine(line) ==
  Let(FlatFrom(<<line>>, 1), LAMBDA f :
    Cardinality({k \in 1..Len(f) : StringQuoteAt(f, k)}) % 2 = 1)

C21_FirstOddLine ==
  FirstIndex(Len(InputLines), LAMBDA i : C21_OddLine(InputLines[i]))

C21_MessageMentions ==
  \/ HasWords(ToLowerCase(message), <<"unterminated">>)
  \/ HasWords(ToLowerCase(message), <<"unexpected", "end", "of", "json">>)

\* C21: when the lower-cased native message contains 'unterminated' or
\* 'unexpected end of json' and some line has an odd count of unescaped
\* quotes, the diagnosis is at the first such line, with its length as the
\* column; when the message has neither phrase, or every line has an even
\* count, the diagnosis is the one the later checks (2 to 6, else the
\* fallback) produce.
C21_UnterminatedCheck ==
  Invalid =>
    IF C21_MessageMentions /\ C21_FirstOddLine # None
      THEN /\ result.error.line = C21_FirstOddLine
           /\ result.error.column = Some(Len(InputLines[C21_FirstOddLine[1]]))
           /\ Mentions(Suggestion, "quote")
      ELSE ResultDiagnosis =
             FirstProduced(Tail(ChecksInOrder(input, message)),
                           Fallback(input, message))

\* The check reported a line that is not the first, below a line whose
\* quotes are even.
C21_Witness ==
  /\ Invalid
  /\ C21_MessageMentions
  /\ C21_FirstOddLine # None
  /\ \E j \in 1..(C21_FirstOddLine[1] - 1) : Includes(InputLines[j], QUOTE)
  /\ result.error.line = C21_FirstOddLine

\* A line has an odd count but the message has neither phrase: the check
\* did not run.
C21_WitnessSkipped ==
  /\ Invalid
  /\ ~C21_MessageMentions
  /\ C21_FirstOddLine # None
  /\ result.error.line # C21_FirstOddLine

\* The trimmed line is one string literal and nothing else: it opens with a
\* quote, its last character is the unescaped quote that closes it, and no
\* unescaped quote lies between the two.
C22_LoneString(current) ==
  /\ Len(current) >= 2
  /\ current[1] = QUOTE
  /\ Let(FlatFrom(<<current>>, 1), LAMBDA f :
       /\ StringQuoteAt(f, Len(f))
       /\ \A k \in 2..(Len(f) - 1) : ~StringQuoteAt(f, k))

\* The trimmed line is a quote, one or more characters none of which is a
\* quote, and a quote.
C22_BareName(current) ==
  /\ Len(current) >= 3
  /\ current[1] = QUOTE
  /\ current[Len(current)] = QUOTE
  /\ \A k \in 2..(Len(current) - 1) : current[k] # QUOTE

C22_ChecksOneAndTwoSilent ==
  /\ ~(C21_MessageMentions /\ C21_FirstOddLine # None)
  /\ C4_FirstPair = None

C22_First(Named(_)) ==
  FirstIndex(Len(InputLines) - 1, LAMBDA i :
    /\ Named(Trim(InputLines[i]))
    /\ ~Includes(Trim(InputLines[i]), ":")
    /\ ~StartsWith(Trim(InputLines[i + 1]), <<":">>))

C22_FirstLoneString == C22_First(C22_LoneString)
C22_FirstBareName == C22_First(C22_BareName)

\* C22 as stated: when checks 1 and 2 yield nothing, the first line that,
\* trimmed, is a lone quoted string without a colon, is not the last line
\* and is not followed by a line starting with ':' is reported, with a
\* suggestion to add a colon and no column.
C22_MissingColon ==
  (Invalid /\ C22_ChecksOneAndTwoSilent /\ C22_FirstLoneString # None) =>
    /\ result.error.line = C22_FirstLoneString
    /\ result.error.column = None
    /\ Mentions(Suggestion, "colon")

\* C22 amended: the same with the line, trimmed, being a quote, at least
\* one character none of which is a quote (escaped or not), and a quote.
C22_MissingColonBareName ==
  (Invalid /\ C22_ChecksOneAndTwoSilent /\ C22_FirstBareName # None) =>
    /\ result.error.line = C22_FirstBareName
    /\ result.error.column = None
    /\ Mentions(Suggestion, "colon")

\* The bare name reported is not on the first line.
C22_Witness ==
  /\ Invalid
  /\ C22_ChecksOneAndTwoSilent
  /\ C22_FirstBareName # None
  /\ C22_FirstBareName[1] > 1
  /\ result.error.line = C22_FirstBareName
  /\ result.error.column = None

(***************************************************************************)
(* trackBrackets against the delimiters outside the text's string literals *)
(***************************************************************************)
\* The '{', '}', '[' and ']' of the text from position k on that lie outside
\* string literals, in text order.  A string literal runs from a quote to
\* the next quote that no backslash of the literal escapes; where is "out",
\* "in" (inside a literal) or "esc" (inside, just after an escaping
\* backslash).
RECURSIVE C23_Delimiters(_, _, _)
C23_Delimiters(text, k, where) ==
  IF k > Len(text) THEN <<>>
  ELSE IF where = "esc" THEN C23_Delimiters(text, k + 1, "in")
  ELSE IF where = "in"
    THEN C23_Delimiters(text, k + 1,
           IF text[k] = BSLASH THEN "esc"
           ELSE IF text[k] = QUOTE THEN "out" ELSE "in")
  ELSE IF text[k] = QUOTE THEN C23_Delimiters(text, k + 1, "in")
  ELSE IF text[k] \in {"{", "}", "[", "]"}
    THEN <<[char |-> text[k]]>> \o C23_Delimiters(text, k + 1, "out")
  ELSE C23_Delimiters(text, k + 1, "out")

C23_Balanced(ds) ==
  /\ FirstBadCloser(ds) = None
  /\ OpenAfter(ds, Len(ds)) = <<>>

\* C23: trackBrackets returns {} exactly when the delimiters outside string
\* literals are balanced and correctly nested.
C23_NoErrorIffBalanced ==
  Tracked =>
    (result = NoBrackets <=> C23_Balanced(C23_Delimiters(input, 1, "out")))

(***************************************************************************)
(* The fallback of detectJsonError and the positions of every diagnosis    *)
(***************************************************************************)
C24_NoCheckFires ==
  \A k \in 1..6 : ChecksInOrder(input, message)[k] = None

\* The line feeds among the first `offset` characters of the input.
C24_BreaksBefore(offset) ==
  {k \in 1..Len(input) : k <= offset /\ input[k] = LF}

\* The 1-based line and column of the character at 0-based `offset`.
C24_LineOf(offset) == 1 + Cardinality(C24_BreaksBefore(offset))
C24_ColumnOf(offset) ==
  offset + 1 - Max(0, CHOOSE b \in C24_BreaksBefore(offset) \cup {0} :
                        \A k \in C24_BreaksBefore(offset) : k <= b)

\* C24: when none of the six checks fires, the diagnosis has the line and
\* column of 'line N column M' in the native message if it has one; else,
\* if the message has 'position N', the 1-based line and the 1-based column
\* of the character at offset N; else no line, no column and the
\* suggestion 'Check your JSON syntax'.
C24_Fallback ==
  (Invalid /\ C24_NoCheckFires) =>
    IF FirefoxMatch(message) # None
      THEN /\ result.error.line = Some(FirefoxMatch(message)[1][1])
           /\ result.error.column = Some(FirefoxMatch(message)[1][2])
    ELSE IF PositionMatch(message) # None
      THEN /\ result.error.line = Some(C24_LineOf(PositionMatch(message)[1]))
           /\ result.error.column = Some(C24_ColumnOf(PositionMatch(message)[1]))
    ELSE /\ result.error.line = None
         /\ result.error.column = None
         /\ result.error.suggestion = Some(SuggestGeneric)

\* C25: in every diagnosis, the line when present is at least 1 and at most
\* the number of lines of the input, and the column when present is at
\* least 1.
C25_PositionsInRange ==
  Invalid =>
    /\ result.error.line # None =>
         result.error.line[1] \in 1..Len(InputLines)
    /\ result.error.column # None => result.error.column[1] >= 1

(***************************************************************************)
(* compareJson on two objects                                              *)
(***************************************************************************)
RECURSIVE C26_Concat(_)
C26_Concat(parts) ==
  IF parts = <<>> THEN <<>> ELSE Head(parts) \o C26_Concat(Tail(parts))

\* The entries the claim gives for two objects compared at the root, l and
\* r being their members in key order.
C26_Expected(l, r) ==
  C26_Concat(
    [i \in 1..Len(l) |->
       IF \E j \in 1..Len(r) : r[j][1] = l[i][1]
         THEN compare(l[i][2],
                      r[CHOOSE j \in 1..Len(r) : r[j][1] = l[i][1]][2],
                      l[i][1])
         ELSE <<[type |-> "removed", path |-> l[i][1],
                 leftValue |-> Some(l[i][2]), rightValue |-> None]>>]
    \o [j \in 1..Len(r) |->
          IF \E i \in 1..Len(l) : l[i][1] = r[j][1]
            THEN <<>>
            ELSE <<[type |-> "added", path |-> r[j][1],
                    leftValue |-> None, rightValue |-> Some(r[j][2])]>>])

C26_BothObjects ==
  /\ BothAccepted
  /\ ParsedOf(input).t = "obj"
  /\ ParsedOf(other).t = "obj"

\* C26: for two objects, the result is, for each left key in the left
\* object's key order, one 'removed' entry when the right object lacks the
\* key and the entries of comparing the two values otherwise, followed by
\* one 'added' entry for each right-only key in the right object's key
\* order.
C26_ObjectEntriesInKeyOrder ==
  C26_BothObjects => result = C26_Expected(ParsedOf(input).v, ParsedOf(other).v)

\* A left-only key, a key with different values and a right-only key.
C26_Witness ==
  /\ C26_BothObjects
  /\ Len(result) = 3
  /\ result[1].type = "removed"
  /\ result[2].type = "changed"
  /\ result[3].type = "added"

(***************************************************************************)
(* Several requests outstanding at once (SpecHook)                         *)
(***************************************************************************)

\* A step in which the hook's onmessage handled the response posted[k].
C27_Handles(k) ==
  /\ k \in DOMAIN posted
  /\ k \notin delivered
  /\ delivered' = delivered \cup {k}
  /\ worker' = worker

\* C27: with several calls outstanding, a response handled by the hook
\* changes only the call whose id it carries, whichever response arrives
\* first: that call's promise resolves with the response's payload (an ERROR
\* response resolves nothing) and its entry leaves the callback table; the
\* table keeps an entry for exactly the calls no response to which has been
\* handled, an entry once removed never comes back, and a promise is settled
\* only with the payload of a response carrying its id.
C27_ResponseResolvesItsOwnCall ==
  /\ [](\A id \in DOMAIN calls :
         /\ calls[id].callback => calls[id].settled = None
         /\ ~calls[id].callback =>
              \E k \in ResponsesTo(id) : k \in delivered
         /\ calls[id].settled # None =>
              \E k \in ResponsesTo(id) :
                /\ k \in delivered
                /\ posted[k].type # "ERROR"
                /\ calls[id].settled = Some(posted[k].payload))
  /\ [][/\ \A k \in DOMAIN posted :
            C27_Handles(k) =>
              /\ \A id \in DOMAIN calls :
                   id # posted[k].id => calls'[id] = calls[id]
              /\ ~calls'[posted[k].id].callback
              /\ calls'[posted[k].id].settled =
                   IF posted[k].type = "ERROR" THEN None
                   ELSE Some(posted[k].payload)
        /\ (\A k \in DOMAIN posted : ~C27_Handles(k)) =>
              \A id \in DOMAIN calls :
                /\ calls'[id].callback = calls[id].callback
                /\ calls'[id].settled = calls[id].settled]_vars

\* Two calls outstanding together, and the response to the later one handled
\* while the response to the earlier one is still on its way.
C27_Witness ==
  /\ Len(calls) = 2
  /\ calls[1].callback
  /\ calls[1].settled = None
  /\ calls[2].settled # None
  /\ \E k \in ResponsesTo(1) : k \notin delivered
  /\ \E k \in ResponsesTo(2) : k \in delivered

(***************************************************************************)
(* The tab bar of JsonFormatter (SpecTabs)                                 *)
(***************************************************************************)

C29_Ids(currentTabs) == {currentTabs[k].id : k \in DOMAIN currentTabs}

\* C29: after any sequence of add, close, select and rename (and of edits
\* and split toggles) the tab list is non-empty and activeTabId is the id of
\* one of its tabs; a step in which handleTabClose closed one of several tabs
\* (call' names it, the tab at idx is the one gone) leaves the other tabs in
\* their order and, when the closed tab was the active one, activates the
\* tab just before it, or the first remaining tab when it was the first;
\* closing another tab leaves activeTabId unchanged.
C29_ActiveTabIsInTheList ==
  /\ [](/\ tabs # <<>>
        /\ activeTabId \in C29_Ids(tabs))
  /\ [][(call' = "handleTabClose" /\ Len(tabs) > 1) =>
          \E idx \in DOMAIN tabs :
            /\ C29_Ids(tabs') = C29_Ids(tabs) \ {tabs[idx].id}
            /\ \A k \in DOMAIN tabs' :
                 tabs'[k].id = tabs[IF k < idx THEN k ELSE k + 1].id
            /\ activeTabId' =
                 IF activeTabId # tabs[idx].id THEN activeTabId
                 ELSE IF idx > 1 THEN tabs[idx - 1].id
                 ELSE tabs'[1].id]_vars

\* Three tabs were open and the last one, the active one, has been closed:
\* the second tab, the one just before it, is active, not the first.
C29_Witness ==
  /\ call = "handleTabClose"
  /\ Len(tabs) = MaxTabs - 1
  /\ Len(tabs) >= 2
  /\ activeTabId = tabs[Len(tabs)].id
  /\ \A k \in DOMAIN tabs : tabs[k].name = <<"Tab", k>>

(***************************************************************************)
(* The debounced validation and handleFormat (SpecAsync)                   *)
(***************************************************************************)

\* What validate and getStats give for the text.
C28_ResultsFor(text) ==
  {<<validateJson(text, thrown), getJsonStats(text, thrown)>> :
     thrown \in Thrown(text)}

C30_FormatWritesCurrentText ==
  [][(formats' # formats /\ tabs' # tabs) =>
       \A k \in DOMAIN tabs :
         tabs'[k] # tabs[k] =>
           /\ \E f \in DOMAIN formats : formats[f].id = tabs[k].id
           /\ \E thrown \in Thrown(tabs[k].content),
                 splitThrown \in Thrown(tabs[k].splitContent) :
                \/ tabs'[k] = [tabs[k] EXCEPT !.content =
                                 formatJson(@, DefaultIndent, thrown)]
                \/ tabs'[k] = [tabs[k] EXCEPT !.splitContent =
                                 formatJson(@, DefaultIndent, splitThrown)]]_vars

====
